---------------------------- MODULE Spec2Model ----------------------------
(***************************************************************************)
(* Resilient multi-provider gateway of backend/src/app/shared/providers:   *)
(* CircuitBreaker, QuotaManager, ProviderHealthTracker, KeyManager,        *)
(* ProviderRouter and ResilientProviderGateway.                            *)
(*                                                                         *)
(* Time is time.monotonic() counted in ticks of 60 seconds: the window of  *)
(* 60 s of the trackers and the default timeout of 60 s are one tick.      *)
(* Latencies are kept in milliseconds.                                     *)
(*                                                                         *)
(* Execute is a coroutine: between two of its awaits (the request_fn call  *)
(* under asyncio.wait_for, and asyncio.sleep) it runs without any other    *)
(* task of the event loop running, so each action of Spec is one such run. *)
(*                                                                         *)
(* Spec    : the gateway, with several Execute calls in flight at once.    *)
(* SpecCB  : one CircuitBreaker driven through its public methods.         *)
(*                                                                         *)
(* The gateway state of Spec is the one the assignments of                 *)
(* ResilientProviderGateway.__init__ and ProviderRouter.__init__ produce:  *)
(* one KeyManager per provider_id, and a router that holds the providers   *)
(* and no health tracker, circuit breaker or quota manager of its own      *)
(* (router.py has no parameter through which the key managers reach it).   *)
(***************************************************************************)
EXTENDS Integers, Sequences, FiniteSets, TLC

VARIABLES
    providers,   \* ResilientProviderGateway._providers: sequence of ProviderConfig
    now,         \* time.monotonic(), in ticks
    km,          \* ResilientProviderGateway._key_managers: provider_id -> KeyManager
    calls,       \* one record per Execute call (task): its locals and position
    cb,          \* SpecCB: the CircuitBreaker under test
    cbCfg,       \* SpecCB: its failure_threshold and cooldown_seconds
    cbObs,       \* SpecCB: the last method called, its result, and the history
    qm,          \* SpecQM, SpecHT: the QuotaManager under test
    qmCfg,       \* SpecQM, SpecHT: its rpm_limit and tpm_limit
    qmObs,       \* SpecQM, SpecHT: the last method called on it, and the history
    ht,          \* SpecHT: the ProviderHealthTracker under test
    router,      \* ProviderRouter: its strategy and round-robin index
    obs          \* the last call made from outside, its result, and the history

vars == <<providers, now, km, calls, cb, cbCfg, cbObs, qm, qmCfg, qmObs, ht, router, obs>>

-----------------------------------------------------------------------------
(* Bounds of the model *)

\* the clock stops at this tick
MaxTime == 2
\* Execute calls (tasks) that may be in flight together
MaxCalls == 2
\* SpecCB: record_failure calls before the breaker under test is left alone
MaxFailures == 4

\* SpecQM, SpecHT: record_usage calls on the QuotaManager under test
MaxUsages == 3

\* SpecWin, SpecHT: calls that record a sample or a usage on the trackers
\* under test
MaxSamples == 3

(* Program constants, in ticks of 60 s *)

\* ProviderHealthTracker(window_seconds=60.0) as built by KeyManager
HealthWindow == 1
\* QuotaManager(window_seconds=60.0)
QuotaWindow == 1
\* QuotaManager(warning_threshold=0.90), in percent
WarningThrPct == 90
\* ProviderHealthTracker(degraded_threshold=0.30, unhealthy_threshold=0.60),
\* in percent
DegradedThrPct == 30
UnhealthyThrPct == 60
\* milliseconds in one tick: latency_ms = (monotonic() - start) * 1000
TickMs == 60000

-----------------------------------------------------------------------------
(* Helpers on sequences *)

Max2(a, b) == IF a >= b THEN a ELSE b
Min2(a, b) == IF a <= b THEN a ELSE b

RECURSIVE SumTokens(_)
SumTokens(rs) ==
    IF rs = <<>> THEN 0 ELSE Head(rs).tokens + SumTokens(Tail(rs))

\* deque.popleft() while the head is older than the cutoff
RECURSIVE DropExpired(_, _)
DropExpired(rs, cutoff) ==
    IF rs # <<>> /\ Head(rs).timestamp < cutoff
    THEN DropExpired(Tail(rs), cutoff)
    ELSE rs

\* bisect.insort (insort_right) into a sorted list
Insort(s, x) ==
    LET n == Cardinality({i \in 1..Len(s) : s[i] <= x})
    IN  SubSeq(s, 1, n) \o <<x>> \o SubSeq(s, n + 1, Len(s))

\* list.remove(x): drops the first occurrence
RemoveFirst(s, x) ==
    LET i == CHOOSE j \in 1..Len(s) : s[j] = x /\ \A l \in 1..(j - 1) : s[l] # x
    IN  SubSeq(s, 1, i - 1) \o SubSeq(s, i + 1, Len(s))

InSeq(s, x) == \E i \in 1..Len(s) : s[i] = x

-----------------------------------------------------------------------------
(* CircuitBreaker (circuit_breaker.py) *)

CB_init ==
    [state |-> "closed", consecutive_failures |-> 0, last_failure_time |-> 0]

\* variant: the cooldown has to be exceeded, not only reached
CB_half_open_after_cooldown(c, cooldown, t) ==
    IF c.state = "open" /\ t - c.last_failure_time > cooldown
    THEN [c EXCEPT !.state = "half_open"]
    ELSE c

CB_maybe_transition_to_half_open(c, cooldown, t) ==
    IF c.state = "open" /\ t - c.last_failure_time >= cooldown
    THEN [c EXCEPT !.state = "half_open"]
    ELSE c

\* the state property: returns the state after the lazy transition
CB_state(c, cooldown, t) ==
    LET c1 == CB_maybe_transition_to_half_open(c, cooldown, t)
    IN  [cb |-> c1, ret |-> c1.state]

CB_can_execute(c, cooldown, t) ==
    LET c1 == CB_maybe_transition_to_half_open(c, cooldown, t)
    IN  [cb |-> c1,
         ret |-> IF c1.state = "closed" THEN TRUE
                 ELSE IF c1.state = "half_open" THEN TRUE
                 ELSE FALSE]

\* variant: the failure count survives a success
CB_record_success_keeps_count(c) ==
    [c EXCEPT !.state = "closed"]

CB_record_success(c) ==
    [c EXCEPT !.state = "closed", !.consecutive_failures = 0]

\* variant: opens one failure late
CB_record_failure_late(c, threshold, t) ==
    LET c1 == [c EXCEPT !.consecutive_failures = @ + 1,
                        !.last_failure_time = t]
    IN  IF c1.state = "half_open"
        THEN [c1 EXCEPT !.state = "open"]
        ELSE IF c1.state = "closed" /\ c1.consecutive_failures > threshold
        THEN [c1 EXCEPT !.state = "open"]
        ELSE c1

\* variant: a failure recorded on an OPEN breaker leaves the time of the
\* last failure as it is
CB_record_failure_keeps_time(c, threshold, t) ==
    LET c1 == [c EXCEPT !.consecutive_failures = @ + 1,
                        !.last_failure_time =
                            IF c.state = "open" THEN @ ELSE t]
    IN  IF c1.state = "half_open"
        THEN [c1 EXCEPT !.state = "open"]
        ELSE IF c1.state = "closed" /\ c1.consecutive_failures >= threshold
        THEN [c1 EXCEPT !.state = "open"]
        ELSE c1

CB_record_failure(c, threshold, t) ==
    LET c1 == [c EXCEPT !.consecutive_failures = @ + 1,
                        !.last_failure_time = t]
    IN  IF c1.state = "half_open"
        THEN [c1 EXCEPT !.state = "open"]
        ELSE IF c1.state = "closed" /\ c1.consecutive_failures >= threshold
        THEN [c1 EXCEPT !.state = "open"]
        ELSE c1

CB_reset(c) ==
    [c EXCEPT !.state = "closed", !.consecutive_failures = 0]

-----------------------------------------------------------------------------
(* QuotaManager (quota.py) *)

QM_init == [records |-> <<>>, warning_emitted |-> FALSE]

\* variant: nothing is ever evicted
QM_evict_nothing(q, rpm, t) ==
    [records |-> q.records,
     warning_emitted |->
        IF rpm > 0 /\ Len(q.records) * 100 < WarningThrPct * rpm
        THEN FALSE ELSE q.warning_emitted]

QM_evict(q, rpm, t) ==
    LET rs == DropExpired(q.records, t - QuotaWindow)
    IN  [records |-> rs,
         warning_emitted |->
            IF rpm > 0 /\ Len(rs) * 100 < WarningThrPct * rpm
            THEN FALSE ELSE q.warning_emitted]

QM_check_warning(q, rpm) ==
    IF rpm <= 0 \/ q.warning_emitted THEN q
    ELSE IF Len(q.records) * 100 >= WarningThrPct * rpm
    THEN [q EXCEPT !.warning_emitted = TRUE]
    ELSE q

\* variant: one request too many is admitted
QM_can_accept_one_more(q, rpm, tpm, est, t) ==
    LET q1 == QM_evict(q, rpm, t)
    IN  [qm |-> q1,
         ret |-> IF rpm > 0 /\ Len(q1.records) > rpm THEN FALSE
                 ELSE IF tpm > 0 /\ SumTokens(q1.records) + est > tpm THEN FALSE
                 ELSE TRUE]

QM_can_accept(q, rpm, tpm, est, t) ==
    LET q1 == QM_evict(q, rpm, t)
    IN  [qm |-> q1,
         ret |-> IF rpm > 0 /\ Len(q1.records) >= rpm THEN FALSE
                 ELSE IF tpm > 0 /\ SumTokens(q1.records) + est > tpm THEN FALSE
                 ELSE TRUE]

QM_record_usage(q, rpm, tokens, t) ==
    LET q1 == [q EXCEPT !.records = Append(@, [timestamp |-> t, tokens |-> tokens])]
    IN  QM_check_warning(QM_evict(q1, rpm, t), rpm)

\* the requests_in_window and tokens_in_window properties
QM_requests_in_window(q, rpm, t) ==
    LET q1 == QM_evict(q, rpm, t)
    IN  [qm |-> q1, ret |-> Len(q1.records)]

QM_tokens_in_window(q, rpm, t) ==
    LET q1 == QM_evict(q, rpm, t)
    IN  [qm |-> q1, ret |-> SumTokens(q1.records)]

QM_reset(q) == [records |-> <<>>, warning_emitted |-> FALSE]

-----------------------------------------------------------------------------
(* ProviderHealthTracker (health.py) *)

HT_init ==
    [samples |-> <<>>, latencies |-> <<>>,
     total_requests |-> 0, total_successes |-> 0, total_failures |-> 0,
     consecutive_failures |-> 0, last_error |-> "None", last_error_time |-> -1]

\* variant: the window is taken twice as long
RECURSIVE HT_evict_late(_, _)
HT_evict_late(h, t) ==
    IF h.samples # <<>> /\ Head(h.samples).timestamp < t - 2 * HealthWindow
    THEN LET old == Head(h.samples)
         IN  HT_evict_late([h EXCEPT !.samples = Tail(@),
                                     !.latencies =
                                         IF InSeq(@, old.latency_ms)
                                         THEN RemoveFirst(@, old.latency_ms)
                                         ELSE @], t)
    ELSE h

\* popleft every expired head; each popped sample takes the first latency
\* equal to its own out of the sorted list, when there is one
RECURSIVE HT_evict(_, _)
HT_evict(h, t) ==
    IF h.samples # <<>> /\ Head(h.samples).timestamp < t - HealthWindow
    THEN LET old == Head(h.samples)
         IN  HT_evict([h EXCEPT !.samples = Tail(@),
                                !.latencies =
                                    IF InSeq(@, old.latency_ms)
                                    THEN RemoveFirst(@, old.latency_ms)
                                    ELSE @], t)
    ELSE h

HT_record_success(h, latency_ms, t) ==
    HT_evict([h EXCEPT
        !.samples = Append(@, [timestamp |-> t, success |-> TRUE,
                               latency_ms |-> latency_ms, error |-> "None"]),
        !.latencies = Insort(@, latency_ms),
        !.total_requests = @ + 1,
        !.total_successes = @ + 1,
        !.consecutive_failures = 0], t)

HT_record_failure(h, error, latency_ms, t) ==
    HT_evict([h EXCEPT
        !.samples = Append(@, [timestamp |-> t, success |-> FALSE,
                               latency_ms |-> latency_ms, error |-> error]),
        !.latencies = IF latency_ms > 0 THEN Insort(@, latency_ms) ELSE @,
        !.total_requests = @ + 1,
        !.total_failures = @ + 1,
        !.consecutive_failures = @ + 1,
        !.last_error = error,
        !.last_error_time = t], t)

\* failures among the samples
RECURSIVE CountFailures(_)
CountFailures(ss) ==
    IF ss = <<>> THEN 0
    ELSE (IF Head(ss).success THEN 0 ELSE 1) + CountFailures(Tail(ss))

\* variant: a rate has to exceed a threshold, not only to meet it
StatusOf_strict(ss) ==
    IF ss = <<>> THEN "healthy"
    ELSE IF CountFailures(ss) * 100 > UnhealthyThrPct * Len(ss) THEN "unhealthy"
    ELSE IF CountFailures(ss) * 100 > DegradedThrPct * Len(ss) THEN "degraded"
    ELSE "healthy"

\* the classification of status from the samples left in the window
StatusOf(ss) ==
    IF ss = <<>> THEN "healthy"
    ELSE IF CountFailures(ss) * 100 >= UnhealthyThrPct * Len(ss) THEN "unhealthy"
    ELSE IF CountFailures(ss) * 100 >= DegradedThrPct * Len(ss) THEN "degraded"
    ELSE "healthy"

\* float(f"{success_rate:.4f}"), in units of 1/10000
RateOf(ss) ==
    IF ss = <<>> THEN 10000
    ELSE (20000 * (Len(ss) - CountFailures(ss)) + Len(ss)) \div (2 * Len(ss))

\* the status property
HT_status(h, t) ==
    LET h1 == HT_evict(h, t)
    IN  [ht |-> h1, ret |-> StatusOf(h1.samples)]

\* _percentile(p), p in percent; the latencies of the model are whole
\* milliseconds, which the formatting to two decimals leaves as they are
HT_percentile(h, pct) ==
    IF h.latencies = <<>> THEN 0
    ELSE h.latencies[Min2((Len(h.latencies) * pct) \div 100,
                          Len(h.latencies) - 1) + 1]

\* health, lines 102-110: the locked block that evicts and takes the rate
HT_window_rate(h, t) ==
    LET h1 == HT_evict(h, t)
    IN  [ht |-> h1, ret |-> RateOf(h1.samples)]

\* the fields of the snapshot that health reads without the lock, in the
\* order of lines 115-118, and the two of lines 123-124
CounterFields ==
    <<"total_requests", "total_successes", "total_failures",
      "consecutive_failures">>
ErrorFields == <<"last_error", "last_error_time">>
Percentiles == <<50, 95, 99>>

\* the snapshot before any field was read
SnapshotInit ==
    [success_rate |-> 10000, status |-> "healthy",
     total_requests |-> 0, total_successes |-> 0, total_failures |-> 0,
     consecutive_failures |-> 0, p50 |-> 0, p95 |-> 0, p99 |-> 0,
     last_error |-> "None", last_error_time |-> -1]

PctField(pct) == IF pct = 50 THEN "p50" ELSE IF pct = 95 THEN "p95" ELSE "p99"

\* health, run from its first line to its return with no other thread
\* running in between
HT_health(h, t) ==
    LET a == HT_window_rate(h, t)
        b == HT_status(a.ht, t)
        g == b.ht
    IN  [ht |-> g,
         ret |-> [success_rate |-> a.ret, status |-> b.ret,
                  total_requests |-> g.total_requests,
                  total_successes |-> g.total_successes,
                  total_failures |-> g.total_failures,
                  consecutive_failures |-> g.consecutive_failures,
                  p50 |-> HT_percentile(g, 50), p95 |-> HT_percentile(g, 95),
                  p99 |-> HT_percentile(g, 99),
                  last_error |-> g.last_error,
                  last_error_time |-> g.last_error_time]]

-----------------------------------------------------------------------------
(* ProviderConfig (types.py) and the configurations the model is run on *)

Cfg(id, keys, prio, rpm, tpm, thr, cool, retries) ==
    [provider_id |-> id, api_keys |-> keys, priority |-> prio,
     rpm_limit |-> rpm, tpm_limit |-> tpm, timeout_s |-> 1,
     cb_failure_threshold |-> thr, cb_cooldown_s |-> cool,
     max_retries |-> retries]

\* str.strip() on the keys the configurations use: whitespace-only keys
\* strip to the empty string, the others keep a non-empty text
Strip(k) == IF k \in {"", " ", "  "} THEN "" ELSE k

\* ProviderConfig.has_keys
HasKeys(cfg) ==
    /\ Len(cfg.api_keys) > 0
    /\ \E i \in 1..Len(cfg.api_keys) : Strip(cfg.api_keys[i]) # ""

\* the fixture of the test suite, with small limits
TwoProviders ==
    << Cfg("alpha", <<"a1", "a2">>, 1, 2, 0, 1, 1, 1),
       Cfg("beta",  <<"b1">>,       2, 0, 3, 2, 2, 2) >>

\* three providers, listed out of priority order, two of equal priority
ThreeProviders ==
    << Cfg("gamma", <<"g1">>, 3, 0, 1, 2, 1, 0),
       Cfg("beta",  <<"b1">>, 1, 0, 0, 1, 1, 1),
       Cfg("alpha", <<"a1">>, 1, 1, 0, 2, 2, 0) >>

\* a provider with only a blank key, and one mixing blank and real keys
BlankKeys ==
    << Cfg("alpha", <<" ">>,      1, 0, 0, 1, 1, 1),
       Cfg("beta",  <<"", "b1">>, 2, 0, 0, 1, 1, 1) >>

ProviderSets == {TwoProviders, ThreeProviders, BlankKeys}

ProviderIds(ps) == {ps[i].provider_id : i \in 1..Len(ps)}

\* the last config of that id: the dict assignment of __init__ keeps the last
ConfigOf(ps, pid) ==
    ps[CHOOSE i \in 1..Len(ps) :
          /\ ps[i].provider_id = pid
          /\ \A j \in (i + 1)..Len(ps) : ps[j].provider_id # pid]

\* estimated_tokens and preferred_provider arguments of Execute
EstTokens == {0, 2}
Preferred == {"None", "gamma"}

\* what request_fn raises, as f"{type(exc).__name__}: {exc}"
ReqErrors == {"ConnectionError: down"}

\* f"Timeout after {cfg.timeout_s}s"
TimeoutMsg(cfg) ==
    IF cfg.timeout_s = 1 THEN "Timeout after 60.0s" ELSE "Timeout after 120.0s"

-----------------------------------------------------------------------------
(* KeyManager (key_manager.py) *)

KM_init(cfg) ==
    [keys |-> [i \in 0..(Len(cfg.api_keys) - 1) |->
                  [api_key |-> cfg.api_keys[i + 1], index |-> i,
                   circuit_breaker |-> CB_init,
                   quota_manager |-> QM_init,
                   health_tracker |-> HT_init]],
     rr_index |-> 0]

KeyCount(k) == Cardinality(DOMAIN k.keys)

\* variant: the index is left on the key that was found
RECURSIVE KM_scan_stay(_, _, _, _, _, _)
KM_scan_stay(k, cfg, start, i, est, t) ==
    LET count == KeyCount(k)
        idx == (start + i) % count
        ce == CB_can_execute(k.keys[idx].circuit_breaker, cfg.cb_cooldown_s, t)
        k1 == [k EXCEPT !.keys[idx].circuit_breaker = ce.cb]
        qa == QM_can_accept(k1.keys[idx].quota_manager,
                            cfg.rpm_limit, cfg.tpm_limit, est, t)
        k2 == [k1 EXCEPT !.keys[idx].quota_manager = qa.qm]
    IN  IF i >= count THEN [km |-> k, sel |-> -1]
        ELSE IF ~ce.ret THEN KM_scan_stay(k1, cfg, start, i + 1, est, t)
        ELSE IF ~qa.ret THEN KM_scan_stay(k2, cfg, start, i + 1, est, t)
        ELSE [km |-> [k2 EXCEPT !.rr_index = idx], sel |-> idx]

\* the loop of select_key from its i-th step on; sel = -1 stands for None
RECURSIVE KM_scan(_, _, _, _, _, _)
KM_scan(k, cfg, start, i, est, t) ==
    LET count == KeyCount(k)
        idx == (start + i) % count
        ce == CB_can_execute(k.keys[idx].circuit_breaker, cfg.cb_cooldown_s, t)
        k1 == [k EXCEPT !.keys[idx].circuit_breaker = ce.cb]
        qa == QM_can_accept(k1.keys[idx].quota_manager,
                            cfg.rpm_limit, cfg.tpm_limit, est, t)
        k2 == [k1 EXCEPT !.keys[idx].quota_manager = qa.qm]
    IN  IF i >= count THEN [km |-> k, sel |-> -1]
        ELSE IF ~ce.ret THEN KM_scan(k1, cfg, start, i + 1, est, t)
        ELSE IF ~qa.ret THEN KM_scan(k2, cfg, start, i + 1, est, t)
        ELSE [km |-> [k2 EXCEPT !.rr_index = (idx + 1) % count], sel |-> idx]

\* variant: every scan starts at the first key
KM_select_key_from_first(k, cfg, est, t) ==
    IF KeyCount(k) = 0 THEN [km |-> k, sel |-> -1]
    ELSE KM_scan(k, cfg, 0, 0, est, t)

KM_select_key(k, cfg, est, t) ==
    IF KeyCount(k) = 0 THEN [km |-> k, sel |-> -1]
    ELSE KM_scan(k, cfg, k.rr_index, 0, est, t)

\* variant: the success is recorded on the key the round-robin index points
\* at, not on the key that was used
KM_record_success_rr_key(k, cfg, key_index, latency_ms, tokens, t) ==
    LET i == k.rr_index % KeyCount(k)
    IN  IF 0 <= key_index /\ key_index < KeyCount(k)
        THEN [k EXCEPT
                !.keys[i].circuit_breaker = CB_record_success(@),
                !.keys[i].quota_manager =
                    QM_record_usage(@, cfg.rpm_limit, tokens, t),
                !.keys[i].health_tracker =
                    HT_record_success(@, latency_ms, t)]
        ELSE k

KM_record_success(k, cfg, key_index, latency_ms, tokens, t) ==
    IF 0 <= key_index /\ key_index < KeyCount(k)
    THEN [k EXCEPT
            !.keys[key_index].circuit_breaker = CB_record_success(@),
            !.keys[key_index].quota_manager =
                QM_record_usage(@, cfg.rpm_limit, tokens, t),
            !.keys[key_index].health_tracker =
                HT_record_success(@, latency_ms, t)]
    ELSE k

\* any_healthy: can_execute of every key, in order, up to the first that
\* admits (any() stops there); the breakers it asked may have gone HALF_OPEN
RECURSIVE KM_any_healthy_from(_, _, _, _)
KM_any_healthy_from(k, cfg, i, t) ==
    IF i >= KeyCount(k) THEN [km |-> k, ret |-> FALSE]
    ELSE LET ce == CB_can_execute(k.keys[i].circuit_breaker, cfg.cb_cooldown_s, t)
             k1 == [k EXCEPT !.keys[i].circuit_breaker = ce.cb]
         IN  IF ce.ret THEN [km |-> k1, ret |-> TRUE]
             ELSE KM_any_healthy_from(k1, cfg, i + 1, t)

KM_any_healthy(k, cfg, t) == KM_any_healthy_from(k, cfg, 0, t)

\* variant: the keys of a manager share one circuit breaker
KM_record_failure_shared_breaker(k, cfg, key_index, error, latency_ms, t) ==
    IF 0 <= key_index /\ key_index < KeyCount(k)
    THEN [k EXCEPT
            !.keys = [j \in DOMAIN @ |->
                        [@[j] EXCEPT !.circuit_breaker =
                            CB_record_failure(@, cfg.cb_failure_threshold, t)]],
            !.keys[key_index].health_tracker =
                HT_record_failure(@, error, latency_ms, t)]
    ELSE k

KM_record_failure(k, cfg, key_index, error, latency_ms, t) ==
    IF 0 <= key_index /\ key_index < KeyCount(k)
    THEN [k EXCEPT
            !.keys[key_index].circuit_breaker =
                CB_record_failure(@, cfg.cb_failure_threshold, t),
            !.keys[key_index].health_tracker =
                HT_record_failure(@, error, latency_ms, t)]
    ELSE k

-----------------------------------------------------------------------------
(* ProviderRouter (router.py), as the gateway builds and uses it *)

\* ProviderRouter.__init__: the strategy and the round-robin index
Router_init(strategy) == [strategy |-> strategy, rr_index |-> 0]

\* variant: providers without keys stay among the candidates
Router_filter_candidates_keyless(ps, exclude) ==
    SelectSeq([i \in 1..Len(ps) |-> i],
              LAMBDA i : ps[i].provider_id \notin exclude)

\* _filter_candidates with no tracker, breaker or quota manager registered:
\* indices into the provider list, in list order
Router_filter_candidates(ps, exclude) ==
    SelectSeq([i \in 1..Len(ps) |-> i],
              LAMBDA i : /\ ps[i].provider_id \notin exclude
                         /\ HasKeys(ps[i]))

\* sorted(candidates, key=priority): stable insertion of x into a sorted list
SortedInsert(ps, s, x) ==
    LET n == Cardinality({i \in 1..Len(s) :
                             ps[s[i]].priority <= ps[x].priority})
    IN  SubSeq(s, 1, n) \o <<x>> \o SubSeq(s, n + 1, Len(s))

\* variant: the candidates are left in the order of the provider list
SortByPriority_unsorted(ps, s) == s

RECURSIVE SortByPriority(_, _)
SortByPriority(ps, s) ==
    IF s = <<>> THEN <<>>
    ELSE SortedInsert(ps, SortByPriority(ps, SubSeq(s, 1, Len(s) - 1)), s[Len(s)])

Router_get_fallback_chain(ps, exclude) ==
    SortByPriority(ps, Router_filter_candidates(ps, exclude))

\* the four RoutingStrategy values
Strategies == {"round_robin", "weighted", "priority_failover", "least_latency"}

\* min(candidates, key=priority): the first of the least priority
Router_select_priority(ps, cands) ==
    cands[CHOOSE i \in 1..Len(cands) :
             /\ \A j \in 1..Len(cands) : ps[cands[i]].priority <= ps[cands[j]].priority
             /\ \A j \in 1..(i - 1) : ps[cands[j]].priority > ps[cands[i]].priority]

\* candidates[_rr_index % len], _rr_index += 1, under the lock
Router_select_round_robin(r, cands) ==
    [router |-> [r EXCEPT !.rr_index = @ + 1],
     ret |-> cands[(r.rr_index % Len(cands)) + 1]]

\* random.choices over the candidates, each of weight 1 (the default of
\* ProviderConfig.weight): any of them may come out
Router_select_weighted(cands) == {cands[i] : i \in 1..Len(cands)}

\* min(candidates, key=latency_key): with no tracker registered every key
\* is inf and min returns the first candidate
Router_select_least_latency(cands) == cands[1]

\* select_provider: what it may return (an index into the provider list,
\* 0 for None) and the router after it
Router_select_provider(r, ps, exclude) ==
    LET cands == Router_filter_candidates(ps, exclude)
    IN  IF cands = <<>> THEN {[router |-> r, ret |-> 0]}
        ELSE IF r.strategy = "priority_failover"
        THEN {[router |-> r, ret |-> Router_select_priority(ps, cands)]}
        ELSE IF r.strategy = "round_robin"
        THEN {Router_select_round_robin(r, cands)}
        ELSE IF r.strategy = "weighted"
        THEN {[router |-> r, ret |-> x] : x \in Router_select_weighted(cands)}
        ELSE IF r.strategy = "least_latency"
        THEN {[router |-> r, ret |-> Router_select_least_latency(cands)]}
        ELSE {[router |-> r, ret |-> cands[1]]}

\* variant: the quota manager of a provider is not asked
RECURSIVE Router_filter_supplied_no_quota(_, _, _, _, _, _, _)
Router_filter_supplied_no_quota(ps, d, st, exclude, est, t, i) ==
    IF i > Len(ps) THEN [cands |-> <<>>, st |-> st]
    ELSE LET pid == ps[i].provider_id
             ce == CB_can_execute(st.cb, d.cooldown, t)
             s1 == IF d.circuits = pid THEN [st EXCEPT !.cb = ce.cb] ELSE st
             hs == HT_status(s1.ht, t)
             s2 == IF d.health = pid THEN [s1 EXCEPT !.ht = hs.ht] ELSE s1
             skip(s) == Router_filter_supplied_no_quota(ps, d, s, exclude, est, t, i + 1)
         IN  IF pid \in exclude \/ ~HasKeys(ps[i]) THEN skip(st)
             ELSE IF d.circuits = pid /\ ~ce.ret THEN skip(s1)
             ELSE IF d.health = pid /\ hs.ret = "unhealthy" THEN skip(s2)
             ELSE LET r == skip(s2)
                  IN  [cands |-> <<i>> \o r.cands, st |-> r.st]

\* _filter_candidates of a router built with circuit_breakers, health_trackers
\* and quota_managers, from provider i on. d names the provider each dict
\* has an entry for ("None" for an empty dict) and the settings of the
\* breaker and the quota manager; st = [cb, ht, qm] are the three components.
\* The result: the candidates, as indices into the provider list in list
\* order, and the components after the calls made on them.
RECURSIVE Router_filter_supplied(_, _, _, _, _, _, _)
Router_filter_supplied(ps, d, st, exclude, est, t, i) ==
    IF i > Len(ps) THEN [cands |-> <<>>, st |-> st]
    ELSE LET pid == ps[i].provider_id
             ce == CB_can_execute(st.cb, d.cooldown, t)
             s1 == IF d.circuits = pid THEN [st EXCEPT !.cb = ce.cb] ELSE st
             hs == HT_status(s1.ht, t)
             s2 == IF d.health = pid THEN [s1 EXCEPT !.ht = hs.ht] ELSE s1
             qa == QM_can_accept(s2.qm, d.rpm_limit, d.tpm_limit, est, t)
             s3 == IF d.quotas = pid THEN [s2 EXCEPT !.qm = qa.qm] ELSE s2
             skip(s) == Router_filter_supplied(ps, d, s, exclude, est, t, i + 1)
         IN  IF pid \in exclude \/ ~HasKeys(ps[i]) THEN skip(st)
             ELSE IF d.circuits = pid /\ ~ce.ret THEN skip(s1)
             ELSE IF d.health = pid /\ hs.ret = "unhealthy" THEN skip(s2)
             ELSE IF d.quotas = pid /\ ~qa.ret THEN skip(s3)
             ELSE LET r == skip(s3)
                  IN  [cands |-> <<i>> \o r.cands, st |-> r.st]

\* _select_least_latency with a tracker registered: the key of its provider
\* is the p50 of tracker.health when that is above 0, every other key is
\* inf, and min returns the first candidate of the least key
Router_least_latency_supplied(ps, d, st, cands, t) ==
    LET h == HT_health(st.ht, t)
        tracked == {i \in 1..Len(cands) : ps[cands[i]].provider_id = d.health}
    IN  IF tracked = {} THEN [ret |-> cands[1], st |-> st]
        ELSE [ret |-> IF h.ret.p50 > 0
                      THEN cands[CHOOSE i \in tracked : \A j \in tracked : i <= j]
                      ELSE cands[1],
              st |-> [st EXCEPT !.ht = h.ht]]

\* select_provider of that router: what it may return (0 for None), the
\* router and the components after it
Router_select_supplied(r, ps, d, st, exclude, est, t) ==
    LET f == Router_filter_supplied(ps, d, st, exclude, est, t, 1)
        cands == f.cands
    IN  IF cands = <<>> THEN {[router |-> r, ret |-> 0, st |-> f.st]}
        ELSE IF r.strategy = "priority_failover"
        THEN {[router |-> r, ret |-> Router_select_priority(ps, cands), st |-> f.st]}
        ELSE IF r.strategy = "round_robin"
        THEN {[router |-> Router_select_round_robin(r, cands).router,
               ret |-> Router_select_round_robin(r, cands).ret, st |-> f.st]}
        ELSE IF r.strategy = "weighted"
        THEN {[router |-> r, ret |-> x, st |-> f.st] :
                 x \in Router_select_weighted(cands)}
        ELSE LET l == Router_least_latency_supplied(ps, d, f.st, cands, t)
             IN  {[router |-> r, ret |-> l.ret, st |-> l.st]}

\* get_fallback_chain of that router
Router_chain_supplied(ps, d, st, exclude, est, t) ==
    LET f == Router_filter_supplied(ps, d, st, exclude, est, t, 1)
    IN  [chain |-> SortByPriority(ps, f.cands), st |-> f.st]

-----------------------------------------------------------------------------
(* ResilientProviderGateway (gateway.py) *)

\* self._backoff_base and self._backoff_max, in milliseconds
BackoffBaseMs == 500
BackoffMaxMs == 8000

RECURSIVE Pow2(_)
Pow2(n) == IF n <= 0 THEN 1 ELSE 2 * Pow2(n - 1)

\* __init__: one KeyManager per provider_id
GW_init_key_managers(ps) ==
    [pid \in ProviderIds(ps) |-> KM_init(ConfigOf(ps, pid))]

\* variant: the preferred provider is not moved
GW_build_chain_no_move(ps, preferred, est) ==
    Router_get_fallback_chain(ps, {})

\* _build_chain: the fallback chain, the preferred provider moved to the front
GW_build_chain(ps, preferred, est) ==
    LET chain == Router_get_fallback_chain(ps, {})
        hits == {i \in 1..Len(chain) : ps[chain[i]].provider_id = preferred}
        f == CHOOSE i \in hits : \A j \in hits : i <= j
    IN  IF preferred # "None" /\ hits # {}
        THEN <<chain[f]>> \o SubSeq(chain, 1, f - 1)
                          \o SubSeq(chain, f + 1, Len(chain))
        ELSE chain

\* variant: the number of keys does not cap the attempts
MaxAttempts_uncapped(cfg, k) == cfg.max_retries + 1

\* max_attempts of _try_provider
MaxAttempts(cfg, k) == Min2(cfg.max_retries + 1, Max2(KeyCount(k), 1))

\* variant: the delay doubles without a ceiling
BackoffDelay_uncapped(a) == BackoffBaseMs * Pow2(a)

\* the backoff delay after failed attempt number a
BackoffDelay(a) == Min2(BackoffBaseMs * Pow2(a), BackoffMaxMs)

\* errors[pid] = reason, on a dict kept as a set of <<pid, reason>>
SetError(errors, pid, reason) ==
    {e \in errors : e[1] # pid} \cup {<<pid, reason>>}

\* what one step recorded, read off the health counters of every key
Recorded(old, new) ==
    {[p |-> p, k |-> k, kind |-> "success",
      n |-> new[p].keys[k].health_tracker.total_successes
            - old[p].keys[k].health_tracker.total_successes] :
        <<p, k>> \in {<<q, i>> \in (DOMAIN old) \X (0..3) :
            /\ i \in DOMAIN old[q].keys
            /\ new[q].keys[i].health_tracker.total_successes
               # old[q].keys[i].health_tracker.total_successes}}
    \cup
    {[p |-> p, k |-> k, kind |-> "failure",
      n |-> new[p].keys[k].health_tracker.total_failures
            - old[p].keys[k].health_tracker.total_failures] :
        <<p, k>> \in {<<q, i>> \in (DOMAIN old) \X (0..3) :
            /\ i \in DOMAIN old[q].keys
            /\ new[q].keys[i].health_tracker.total_failures
               # old[q].keys[i].health_tracker.total_failures}}

CallIds == 1..MaxCalls

\* the locals of one execute call; log lists the request_fn calls made and
\* how each ended (the error_msg of the attempt and the last_error of the
\* key's tracker after it was recorded), unhealthy the providers whose
\* any_healthy was False when the call built its chain
CallInit ==
    [pc |-> "idle", est |-> 0, preferred |-> "None", chain |-> <<>>,
     pos |-> 0, attempted |-> {}, errors |-> {}, attempt |-> 0,
     max_attempts |-> 0, key |-> -1, start |-> 0, delay |-> 0,
     result |-> [provider |-> "None", api_key |-> "None"], log |-> <<>>,
     unhealthy |-> {}]

\* the provider a call is working on
CurCfg(ps, cl) == ps[cl.chain[cl.pos]]

\* execute, lines 106-129: the head of the loop over the chain.
\* st = [cl |-> the call, km |-> the key managers]
GW_next_provider(st, ps) ==
    LET cl == st.cl
        cfg == ps[cl.chain[cl.pos + 1]]
        pid == cfg.provider_id
        ma == MaxAttempts(cfg, st.km[pid])
    IN  [st EXCEPT !.cl =
            IF cl.pos = Len(cl.chain)
            THEN [cl EXCEPT !.pc = "raised"]
            ELSE IF pid \in cl.attempted
            THEN [cl EXCEPT !.pos = @ + 1]
            ELSE IF ma <= 0
            THEN [cl EXCEPT !.pos = @ + 1, !.attempted = @ \cup {pid},
                            !.errors = SetError(@, pid, "exhausted_attempts")]
            ELSE [cl EXCEPT !.pos = @ + 1, !.attempted = @ \cup {pid},
                            !.attempt = 0, !.max_attempts = ma,
                            !.pc = "attempt"]]

\* variant: a selection that finds no key counts as a failure of the first key
GW_attempt_null_fails(st, ps, t) ==
    LET cl == st.cl
        cfg == CurCfg(ps, cl)
        pid == cfg.provider_id
        r == KM_select_key(st.km[pid], cfg, cl.est, t)
    IN  [cl |-> IF r.sel = -1
                THEN [cl EXCEPT !.errors = SetError(@, pid, "no_usable_keys"),
                                !.pc = "chain"]
                ELSE [cl EXCEPT !.key = r.sel, !.start = t, !.pc = "inflight"],
         km |-> [st.km EXCEPT ![pid] =
                    IF r.sel = -1
                    THEN KM_record_failure(r.km, cfg, 0, "no_usable_keys", 0, t)
                    ELSE r.km]]

\* _try_provider, lines 146-168: select a key and call request_fn with it
GW_attempt(st, ps, t) ==
    LET cl == st.cl
        cfg == CurCfg(ps, cl)
        pid == cfg.provider_id
        r == KM_select_key(st.km[pid], cfg, cl.est, t)
    IN  [cl |-> IF r.sel = -1
                THEN [cl EXCEPT !.errors = SetError(@, pid, "no_usable_keys"),
                                !.pc = "chain"]
                ELSE [cl EXCEPT !.key = r.sel, !.start = t, !.pc = "inflight"],
         km |-> [st.km EXCEPT ![pid] = r.km]]

\* the coroutine runs on to its next await, return or raise
RECURSIVE GW_run(_, _, _)
GW_run(st, ps, t) ==
    IF st.cl.pc = "chain" THEN GW_run(GW_next_provider(st, ps), ps, t)
    ELSE IF st.cl.pc = "attempt" THEN GW_run(GW_attempt(st, ps, t), ps, t)
    ELSE st

\* variant: the error of the last attempt on a provider reaches the caller
GW_after_failure_reraise(cl, cfg, entry) ==
    IF cl.attempt < cl.max_attempts - 1
    THEN [cl EXCEPT !.pc = "sleep", !.delay = BackoffDelay(cl.attempt),
                    !.log = Append(@, entry)]
    ELSE [cl EXCEPT !.pc = "propagated", !.log = Append(@, entry)]

\* variant: a provider out of attempts ends the call, the rest of the chain
\* is not tried
GW_after_failure_give_up(cl, cfg, entry) ==
    IF cl.attempt < cl.max_attempts - 1
    THEN [cl EXCEPT !.pc = "sleep", !.delay = BackoffDelay(cl.attempt),
                    !.log = Append(@, entry)]
    ELSE [cl EXCEPT !.pc = "raised", !.log = Append(@, entry),
                    !.errors = SetError(@, cfg.provider_id, "exhausted_attempts")]

\* variant: the provider's entry in errors is the error of its last attempt
GW_after_failure_cause(cl, cfg, entry) ==
    IF cl.attempt < cl.max_attempts - 1
    THEN [cl EXCEPT !.pc = "sleep", !.delay = BackoffDelay(cl.attempt),
                    !.log = Append(@, entry)]
    ELSE [cl EXCEPT !.pc = "chain", !.log = Append(@, entry),
                    !.errors = SetError(@, cfg.provider_id, entry.msg)]

\* variant: one more attempt than max_attempts before the provider is left
GW_after_failure_once_more(cl, cfg, entry) ==
    IF cl.attempt < cl.max_attempts
    THEN [cl EXCEPT !.pc = "sleep", !.delay = BackoffDelay(cl.attempt),
                    !.log = Append(@, entry)]
    ELSE [cl EXCEPT !.pc = "chain", !.log = Append(@, entry),
                    !.errors = SetError(@, cfg.provider_id, "exhausted_attempts")]

\* _try_provider, lines 192-201, after a failed attempt: back off before the
\* next attempt, or leave the provider
GW_after_failure(cl, cfg, entry) ==
    IF cl.attempt < cl.max_attempts - 1
    THEN [cl EXCEPT !.pc = "sleep", !.delay = BackoffDelay(cl.attempt),
                    !.log = Append(@, entry)]
    ELSE [cl EXCEPT !.pc = "chain", !.log = Append(@, entry),
                    !.errors = SetError(@, cfg.provider_id, "exhausted_attempts")]

-----------------------------------------------------------------------------
(* The health and admin section of the gateway (gateway.py, lines 221-283) *)

\* float(f"{total_succ / total_req:.4f}"), in units of 1/10000
GW_success_rate(total_succ, total_req) ==
    IF total_req > 0 THEN (20000 * total_succ + total_req) \div (2 * total_req)
    ELSE 10000

\* variant: the snapshot is that of the provider's first key
GW_health_scan_first_key(k, cfg, i, t, acc) ==
    IF i >= KeyCount(k) THEN [km |-> k, acc |-> acc]
    ELSE LET h == HT_health(k.keys[i].health_tracker, t)
             ce == CB_can_execute(k.keys[i].circuit_breaker, cfg.cb_cooldown_s, t)
             k1 == [k EXCEPT !.keys[i].health_tracker = h.ht,
                             !.keys[i].circuit_breaker = ce.cb]
         IN  [km |-> k1,
              acc |-> [req |-> acc.req + h.ret.total_requests,
                       succ |-> acc.succ + h.ret.total_successes,
                       fail |-> acc.fail + h.ret.total_failures,
                       usable |-> acc.usable + (IF ce.ret THEN 1 ELSE 0)]]

\* the loop of get_health over km._keys from key i on: the health property
\* of the key's tracker, then can_execute of its breaker.
\* acc = [req, succ, fail, usable]
RECURSIVE GW_health_scan(_, _, _, _, _)
GW_health_scan(k, cfg, i, t, acc) ==
    IF i >= KeyCount(k) THEN [km |-> k, acc |-> acc]
    ELSE LET h == HT_health(k.keys[i].health_tracker, t)
             ce == CB_can_execute(k.keys[i].circuit_breaker, cfg.cb_cooldown_s, t)
             k1 == [k EXCEPT !.keys[i].health_tracker = h.ht,
                             !.keys[i].circuit_breaker = ce.cb]
         IN  GW_health_scan(k1, cfg, i + 1, t,
                 [req |-> acc.req + h.ret.total_requests,
                  succ |-> acc.succ + h.ret.total_successes,
                  fail |-> acc.fail + h.ret.total_failures,
                  usable |-> acc.usable + (IF ce.ret THEN 1 ELSE 0)])

\* variant: the read moves the round-robin index on
GW_get_health_advance(kms, ps, pid, t) ==
    IF pid \notin DOMAIN kms THEN [km |-> kms, ret |-> "None"]
    ELSE LET k == kms[pid]
             r == GW_health_scan(k, ConfigOf(ps, pid), 0, t,
                                 [req |-> 0, succ |-> 0, fail |-> 0, usable |-> 0])
             a == r.acc
             k1 == [r.km EXCEPT !.rr_index = (@ + 1) % Max2(KeyCount(k), 2)]
         IN  [km |-> [kms EXCEPT ![pid] = k1],
              ret |-> [provider_id |-> pid,
                       status |-> IF a.usable = 0 /\ KeyCount(k) > 0
                                  THEN "unhealthy"
                                  ELSE IF a.usable < KeyCount(k) THEN "degraded"
                                  ELSE "healthy",
                       total_requests |-> a.req,
                       total_successes |-> a.succ,
                       total_failures |-> a.fail,
                       consecutive_failures |-> 0,
                       success_rate |-> GW_success_rate(a.succ, a.req),
                       p50 |-> 0, p95 |-> 0, p99 |-> 0,
                       last_error |-> "Check individual key logs",
                       last_error_time |-> -1,
                       circuit_state |-> "closed",
                       quota_remaining_pct |-> 100,
                       current_key_index |-> k1.rr_index]]

\* get_health(provider_id): the snapshot (the string "None" for None) and
\* the key managers after the call
GW_get_health(kms, ps, pid, t) ==
    IF pid \notin DOMAIN kms THEN [km |-> kms, ret |-> "None"]
    ELSE LET k == kms[pid]
             r == GW_health_scan(k, ConfigOf(ps, pid), 0, t,
                                 [req |-> 0, succ |-> 0, fail |-> 0, usable |-> 0])
             a == r.acc
         IN  [km |-> [kms EXCEPT ![pid] = r.km],
              ret |-> [provider_id |-> pid,
                       status |-> IF a.usable = 0 /\ KeyCount(k) > 0
                                  THEN "unhealthy"
                                  ELSE IF a.usable < KeyCount(k) THEN "degraded"
                                  ELSE "healthy",
                       total_requests |-> a.req,
                       total_successes |-> a.succ,
                       total_failures |-> a.fail,
                       consecutive_failures |-> 0,
                       success_rate |-> GW_success_rate(a.succ, a.req),
                       p50 |-> 0, p95 |-> 0, p99 |-> 0,
                       last_error |-> "Check individual key logs",
                       last_error_time |-> -1,
                       circuit_state |-> "closed",
                       quota_remaining_pct |-> 100,
                       current_key_index |-> r.km.rr_index]]

\* gateway.reset_provider(provider_id), as routers.py:479 and the tests
\* call it: the class has no such attribute, the lookup raises
\* AttributeError and nothing is changed
GW_reset_provider(kms, pid) == [km |-> kms, ret |-> "AttributeError"]

\* execute is called: the chain is built and the first provider is tried,
\* up to the first request_fn call
GW_execute(c) ==
    /\ calls[c].pc = "idle"
    /\ \A d \in CallIds : d < c => calls[d].pc # "idle"
    /\ \E est \in EstTokens, pref \in Preferred :
         LET cl == [CallInit EXCEPT
                       !.pc = "chain", !.est = est, !.preferred = pref,
                       !.chain = GW_build_chain(providers, pref, est),
                       !.unhealthy =
                           {pid \in ProviderIds(providers) :
                               ~KM_any_healthy(km[pid], ConfigOf(providers, pid),
                                               now).ret}]
             st == GW_run([cl |-> cl, km |-> km], providers, now)
         IN  /\ calls' = [calls EXCEPT ![c] = st.cl]
             /\ km' = st.km
    /\ UNCHANGED <<providers, now, cb, cbCfg, cbObs, qm, qmCfg, qmObs, ht, router, obs>>

\* request_fn returned: lines 171-177, then execute returns the result
GW_request_returns(c) ==
    /\ calls[c].pc = "inflight"
    /\ LET cl == calls[c]
           cfg == CurCfg(providers, cl)
           pid == cfg.provider_id
           latency_ms == (now - cl.start) * TickMs
           km1 == [km EXCEPT ![pid] =
                      KM_record_success(@, cfg, cl.key, latency_ms, cl.est, now)]
       IN  /\ km' = km1
           /\ calls' = [calls EXCEPT ![c] =
                [cl EXCEPT !.pc = "returned",
                           !.result = [provider |-> pid,
                                       api_key |-> km[pid].keys[cl.key].api_key],
                           !.log = Append(@, [p |-> pid, k |-> cl.key,
                                              outcome |-> "ok",
                                              rec |-> Recorded(km, km1),
                                              msg |-> "None",
                                              last_error |->
                                                  km1[pid].keys[cl.key]
                                                     .health_tracker.last_error])]]
    /\ UNCHANGED <<providers, now, cb, cbCfg, cbObs, qm, qmCfg, qmObs, ht, router, obs>>

\* request_fn raised an Exception: lines 186-190, then on to the next await
GW_request_raises(c) ==
    /\ calls[c].pc = "inflight"
    /\ \E error_msg \in ReqErrors :
         LET cl == calls[c]
             cfg == CurCfg(providers, cl)
             pid == cfg.provider_id
             latency_ms == (now - cl.start) * TickMs
             km1 == [km EXCEPT ![pid] =
                        KM_record_failure(@, cfg, cl.key, error_msg, latency_ms, now)]
             cl1 == GW_after_failure(cl, cfg,
                        [p |-> pid, k |-> cl.key, outcome |-> "raise",
                         rec |-> Recorded(km, km1), msg |-> error_msg,
                         last_error |->
                             km1[pid].keys[cl.key].health_tracker.last_error])
             st == GW_run([cl |-> cl1, km |-> km1], providers, now)
         IN  /\ calls' = [calls EXCEPT ![c] = st.cl]
             /\ km' = st.km
    /\ UNCHANGED <<providers, now, cb, cbCfg, cbObs, qm, qmCfg, qmObs, ht, router, obs>>

\* asyncio.wait_for ran into cfg.timeout_s: lines 179-184, then on
GW_request_times_out(c) ==
    /\ calls[c].pc = "inflight"
    /\ now - calls[c].start >= CurCfg(providers, calls[c]).timeout_s
    /\ LET cl == calls[c]
           cfg == CurCfg(providers, cl)
           pid == cfg.provider_id
           latency_ms == (now - cl.start) * TickMs
           km1 == [km EXCEPT ![pid] =
                      KM_record_failure(@, cfg, cl.key, TimeoutMsg(cfg),
                                        latency_ms, now)]
           cl1 == GW_after_failure(cl, cfg,
                      [p |-> pid, k |-> cl.key, outcome |-> "timeout",
                       rec |-> Recorded(km, km1), msg |-> TimeoutMsg(cfg),
                       last_error |->
                           km1[pid].keys[cl.key].health_tracker.last_error])
           st == GW_run([cl |-> cl1, km |-> km1], providers, now)
       IN  /\ calls' = [calls EXCEPT ![c] = st.cl]
           /\ km' = st.km
    /\ UNCHANGED <<providers, now, cb, cbCfg, cbObs, qm, qmCfg, qmObs, ht, router, obs>>

\* variant: the backoff sleep never ends, the call stays where it is
GW_wake_never(c) ==
    /\ calls[c].pc = "sleep"
    /\ UNCHANGED <<calls, km>>
    /\ UNCHANGED <<providers, now, cb, cbCfg, cbObs, qm, qmCfg, qmObs, ht, router, obs>>

\* asyncio.sleep(delay) of line 198 is over: the next attempt
GW_wake(c) ==
    /\ calls[c].pc = "sleep"
    /\ LET cl == [calls[c] EXCEPT !.pc = "attempt", !.attempt = @ + 1]
           st == GW_run([cl |-> cl, km |-> km], providers, now)
       IN  /\ calls' = [calls EXCEPT ![c] = st.cl]
           /\ km' = st.km
    /\ UNCHANGED <<providers, now, cb, cbCfg, cbObs, qm, qmCfg, qmObs, ht, router, obs>>

\* variant: CancelledError is handled by `except Exception`, as it was
\* while it derived from Exception
GW_cancelled_caught(st, ps, t) ==
    LET cl == st.cl
        cfg == CurCfg(ps, cl)
        pid == cfg.provider_id
    IN  IF cl.pc = "sleep" THEN [st EXCEPT !.cl.pc = "cancelled"]
        ELSE LET km1 == [st.km EXCEPT ![pid] =
                            KM_record_failure(@, cfg, cl.key, "CancelledError: ",
                                              (t - cl.start) * TickMs, t)]
                 cl1 == GW_after_failure(cl, cfg,
                            [p |-> pid, k |-> cl.key, outcome |-> "raise",
                             rec |-> Recorded(st.km, km1),
                             msg |-> "CancelledError: ",
                             last_error |->
                                 km1[pid].keys[cl.key].health_tracker.last_error])
             IN  GW_run([cl |-> cl1, km |-> km1], ps, t)

\* the task awaiting wait_for (line 167) or asyncio.sleep (line 198) is
\* cancelled: wait_for cancels request_fn and raises CancelledError, which
\* is a BaseException; neither `except asyncio.TimeoutError` nor
\* `except Exception` (lines 179, 186) handles it, and execute has no
\* handler, so it leaves _try_provider and execute with nothing recorded
GW_cancelled(st, ps, t) ==
    LET cl == st.cl
        pid == CurCfg(ps, cl).provider_id
    IN  IF cl.pc = "sleep" THEN [st EXCEPT !.cl.pc = "cancelled"]
        ELSE [st EXCEPT !.cl.pc = "cancelled",
                        !.cl.log = Append(@,
                            [p |-> pid, k |-> cl.key, outcome |-> "cancelled",
                             rec |-> Recorded(st.km, st.km), msg |-> "None",
                             last_error |->
                                 st.km[pid].keys[cl.key]
                                    .health_tracker.last_error])]

\* task.cancel() on the task that runs execute, while it awaits
GW_cancel(c) ==
    /\ calls[c].pc \in {"inflight", "sleep"}
    /\ LET st == GW_cancelled([cl |-> calls[c], km |-> km], providers, now)
       IN  /\ calls' = [calls EXCEPT ![c] = st.cl]
           /\ km' = st.km
    /\ obs' = [op |-> "cancel", pc |-> calls[c].pc, log |-> calls[c].log,
               attempted |-> calls[c].attempted, km |-> km]
    /\ UNCHANGED <<providers, now, cb, cbCfg, cbObs, qm, qmCfg, qmObs, ht, router>>

\* the monotonic clock advances; its origin is arbitrary, so it is read as 0
\* until the first call
Tick ==
    /\ now < MaxTime
    /\ \E c \in CallIds : calls[c].pc # "idle"
    /\ now' = now + 1
    /\ UNCHANGED <<providers, km, calls, cb, cbCfg, cbObs, qm, qmCfg, qmObs, ht, router, obs>>

\* the limits of a QuotaManager no specification drives
QMIdle == [rpm_limit |-> 0, tpm_limit |-> 0]

\* SpecQM: the estimated_tokens and tokens arguments
QMEst == {0, 1, 3}
QMTokens == {0, 2}

\* SpecQM's record of what was called last: the method, its argument and
\* what it returned, every usage recorded since the last reset (hist), and
\* the time of the can_accept that a full
\* window refused first with no usage recorded since, for each value of
\* estimated_tokens (rej[est] = -1: none)
QMObsIdle ==
    [op |-> "init", ret |-> "None", est |-> 0, hist |-> <<>>,
     rej |-> [e \in QMEst |-> -1]]

\* nothing was called from outside yet
ObsIdle == [op |-> "init"]

\* SpecCB's record of what was called last: the method, what it returned, the
\* state before it, the record_failure calls since the last record_success
\* or reset (streak), the time of the last record_failure, their number, and
\* the time of the last record_failure made on a HALF_OPEN breaker, and the
\* time of the record_failure that last took the breaker to OPEN
CBIdle ==
    [op |-> "init", ret |-> "None", prev |-> "closed", streak |-> 0,
     lastFail |-> -1, fails |-> 0, probeFail |-> -1, opened |-> -1]

Init ==
    /\ providers \in ProviderSets
    /\ now = 0
    /\ km = GW_init_key_managers(providers)
    /\ calls = [c \in CallIds |-> CallInit]
    /\ cb = CB_init
    /\ cbCfg = [failure_threshold |-> 1, cooldown_seconds |-> 1]
    /\ cbObs = CBIdle
    /\ qm = QM_init
    /\ qmCfg = QMIdle
    /\ qmObs = QMObsIdle
    /\ ht = HT_init
    /\ router = Router_init("priority_failover")
    /\ obs = ObsIdle

Next ==
    \/ \E c \in CallIds : GW_execute(c)
    \/ \E c \in CallIds : GW_request_returns(c)
    \/ \E c \in CallIds : GW_request_raises(c)
    \/ \E c \in CallIds : GW_request_times_out(c)
    \/ \E c \in CallIds : GW_wake(c)
    \/ Tick

Spec == Init /\ [][Next]_vars

-----------------------------------------------------------------------------
(* SpecCB: one CircuitBreaker, its public methods called in any order *)

BoolStr(b) == IF b THEN "True" ELSE "False"

CBSettings ==
    {[failure_threshold |-> n, cooldown_seconds |-> d] : n \in 1..3, d \in 1..2}

\* cb.state
CBT_state ==
    /\ LET r == CB_state(cb, cbCfg.cooldown_seconds, now)
       IN  /\ cb' = r.cb
           /\ cbObs' = [cbObs EXCEPT !.op = "state", !.ret = r.ret,
                                     !.prev = cb.state]
    /\ UNCHANGED <<providers, now, km, calls, cbCfg, qm, qmCfg, qmObs, ht, router, obs>>

\* cb.can_execute()
CBT_can_execute ==
    /\ LET r == CB_can_execute(cb, cbCfg.cooldown_seconds, now)
       IN  /\ cb' = r.cb
           /\ cbObs' = [cbObs EXCEPT !.op = "can_execute", !.ret = BoolStr(r.ret),
                                     !.prev = cb.state]
    /\ UNCHANGED <<providers, now, km, calls, cbCfg, qm, qmCfg, qmObs, ht, router, obs>>

\* cb.record_success()
CBT_record_success ==
    /\ cb' = CB_record_success(cb)
    /\ cbObs' = [cbObs EXCEPT !.op = "record_success", !.ret = "None",
                              !.prev = cb.state, !.streak = 0]
    /\ UNCHANGED <<providers, now, km, calls, cbCfg, qm, qmCfg, qmObs, ht, router, obs>>

\* cb.record_failure()
CBT_record_failure ==
    /\ cbObs.fails < MaxFailures
    /\ cb' = CB_record_failure(cb, cbCfg.failure_threshold, now)
    /\ cbObs' = [cbObs EXCEPT !.op = "record_failure", !.ret = "None",
                              !.prev = cb.state, !.streak = @ + 1,
                              !.lastFail = now, !.fails = @ + 1,
                              !.probeFail = IF cb.state = "half_open"
                                            THEN now ELSE @,
                              !.opened = IF cb.state # "open"
                                            /\ cb'.state = "open"
                                         THEN now ELSE @]
    /\ UNCHANGED <<providers, now, km, calls, cbCfg, qm, qmCfg, qmObs, ht, router, obs>>

\* cb.reset()
CBT_reset ==
    /\ cb' = CB_reset(cb)
    /\ cbObs' = [cbObs EXCEPT !.op = "reset", !.ret = "None",
                              !.prev = cb.state, !.streak = 0]
    /\ UNCHANGED <<providers, now, km, calls, cbCfg, qm, qmCfg, qmObs, ht, router, obs>>

\* time passes; nothing runs in the breaker
CBT_tick ==
    /\ now < MaxTime
    /\ now' = now + 1
    /\ cbObs' = [cbObs EXCEPT !.op = "tick", !.ret = "None", !.prev = cb.state]
    /\ UNCHANGED <<providers, km, calls, cb, cbCfg, qm, qmCfg, qmObs, ht, router, obs>>

InitCB ==
    /\ providers = <<>>
    /\ now = 0
    /\ km = <<>>
    /\ calls = <<>>
    /\ cb = CB_init
    /\ cbCfg \in CBSettings
    /\ cbObs = CBIdle
    /\ qm = QM_init
    /\ qmCfg = QMIdle
    /\ qmObs = QMObsIdle
    /\ ht = HT_init
    /\ router = Router_init("priority_failover")
    /\ obs = ObsIdle

NextCB ==
    \/ CBT_state
    \/ CBT_can_execute
    \/ CBT_record_success
    \/ CBT_record_failure
    \/ CBT_reset
    \/ CBT_tick

SpecCB == InitCB /\ [][NextCB]_vars

-----------------------------------------------------------------------------
(* SpecQM: one QuotaManager, its public methods called in any order *)

QMSettings ==
    {[rpm_limit |-> r, tpm_limit |-> t] : r \in {0, 1, 2}, t \in {0, 2}}

\* qm.can_accept(est)
QMT_can_accept ==
    /\ \E est \in QMEst :
         LET r == QM_can_accept(qm, qmCfg.rpm_limit, qmCfg.tpm_limit, est, now)
             windowFull == /\ ~r.ret
                           /\ (qmCfg.tpm_limit = 0 \/ est <= qmCfg.tpm_limit)
         IN  /\ qm' = r.qm
             /\ qmObs' = [qmObs EXCEPT
                    !.op = "can_accept", !.ret = BoolStr(r.ret), !.est = est,
                    !.rej[est] = IF windowFull /\ @ = -1 THEN now ELSE @]
    /\ UNCHANGED <<providers, now, km, calls, cb, cbCfg, cbObs, qmCfg, ht, router, obs>>

\* qm.record_usage(tokens)
QMT_record_usage ==
    /\ Len(qmObs.hist) < MaxUsages
    /\ \E tokens \in QMTokens :
         /\ qm' = QM_record_usage(qm, qmCfg.rpm_limit, tokens, now)
         /\ qmObs' = [qmObs EXCEPT
                !.op = "record_usage", !.ret = "None", !.est = tokens,
                !.hist = Append(@, [timestamp |-> now, tokens |-> tokens]),
                !.rej = QMObsIdle.rej]
    /\ UNCHANGED <<providers, now, km, calls, cb, cbCfg, cbObs, qmCfg, ht, router, obs>>

\* qm.requests_in_window
QMT_requests_in_window ==
    /\ LET r == QM_requests_in_window(qm, qmCfg.rpm_limit, now)
       IN  /\ qm' = r.qm
           /\ qmObs' = [qmObs EXCEPT !.op = "requests_in_window", !.ret = r.ret]
    /\ UNCHANGED <<providers, now, km, calls, cb, cbCfg, cbObs, qmCfg, ht, router, obs>>

\* qm.tokens_in_window
QMT_tokens_in_window ==
    /\ LET r == QM_tokens_in_window(qm, qmCfg.rpm_limit, now)
       IN  /\ qm' = r.qm
           /\ qmObs' = [qmObs EXCEPT !.op = "tokens_in_window", !.ret = r.ret]
    /\ UNCHANGED <<providers, now, km, calls, cb, cbCfg, cbObs, qmCfg, ht, router, obs>>

\* qm.reset()
QMT_reset ==
    /\ qmObs.hist # <<>>
    /\ qm' = QM_reset(qm)
    /\ qmObs' = [QMObsIdle EXCEPT !.op = "reset"]
    /\ UNCHANGED <<providers, now, km, calls, cb, cbCfg, cbObs, qmCfg, ht, router, obs>>

\* time passes; nothing runs in the quota manager
QMT_tick ==
    /\ now < MaxTime
    /\ now' = now + 1
    /\ qmObs' = [qmObs EXCEPT !.op = "tick", !.ret = "None"]
    /\ UNCHANGED <<providers, km, calls, cb, cbCfg, cbObs, qm, qmCfg, ht, router, obs>>

InitQM ==
    /\ providers = <<>>
    /\ now = 0
    /\ km = <<>>
    /\ calls = <<>>
    /\ cb = CB_init
    /\ cbCfg = [failure_threshold |-> 1, cooldown_seconds |-> 1]
    /\ cbObs = CBIdle
    /\ qm = QM_init
    /\ qmCfg \in QMSettings
    /\ qmObs = QMObsIdle
    /\ ht = HT_init
    /\ router = Router_init("priority_failover")
    /\ obs = ObsIdle

NextQM ==
    \/ QMT_can_accept
    \/ QMT_record_usage
    \/ QMT_requests_in_window
    \/ QMT_tokens_in_window
    \/ QMT_reset
    \/ QMT_tick

SpecQM == InitQM /\ [][NextQM]_vars

-----------------------------------------------------------------------------
(* SpecWin: one ProviderHealthTracker and one QuotaManager under one clock, *)
(* their methods called in any order by one thread                         *)

\* the record of what was called last on the health tracker: the method,
\* what it returned, every sample recorded (hist), and for SpecHT where the
\* thread that reads health stands (pc, i) with the fields it has read (snap)
HTObsIdle ==
    [op |-> "init", ret |-> "None", hist |-> <<>>,
     pc |-> "idle", i |-> 0, snap |-> SnapshotInit]

\* latency_ms arguments, in milliseconds
Latencies == {0, TickMs}

\* ht.record_success(latency_ms)
HTT_record_success ==
    /\ Len(obs.hist) + Len(qmObs.hist) < MaxSamples
    /\ \E latency_ms \in Latencies :
         /\ ht' = HT_record_success(ht, latency_ms, now)
         /\ obs' = [obs EXCEPT
                !.op = "record_success", !.ret = "None",
                !.hist = Append(@, [timestamp |-> now, success |-> TRUE,
                                    latency_ms |-> latency_ms])]
    /\ UNCHANGED <<providers, now, km, calls, cb, cbCfg, cbObs, qm, qmCfg, qmObs, router>>

\* ht.record_failure(error, latency_ms)
HTT_record_failure ==
    /\ Len(obs.hist) + Len(qmObs.hist) < MaxSamples
    /\ \E latency_ms \in Latencies, error \in ReqErrors :
         /\ ht' = HT_record_failure(ht, error, latency_ms, now)
         /\ obs' = [obs EXCEPT
                !.op = "record_failure", !.ret = "None",
                !.hist = Append(@, [timestamp |-> now, success |-> FALSE,
                                    latency_ms |-> latency_ms])]
    /\ UNCHANGED <<providers, now, km, calls, cb, cbCfg, cbObs, qm, qmCfg, qmObs, router>>

\* ht.status
HTT_status ==
    /\ LET r == HT_status(ht, now)
       IN  /\ ht' = r.ht
           /\ obs' = [obs EXCEPT !.op = "status", !.ret = r.ret]
    /\ UNCHANGED <<providers, now, km, calls, cb, cbCfg, cbObs, qm, qmCfg, qmObs, router>>

\* ht.health, with no other thread running
HTT_health ==
    /\ obs.pc = "idle"
    /\ LET r == HT_health(ht, now)
       IN  /\ ht' = r.ht
           /\ obs' = [obs EXCEPT !.op = "health", !.ret = r.ret]
    /\ UNCHANGED <<providers, now, km, calls, cb, cbCfg, cbObs, qm, qmCfg, qmObs, router>>

\* time passes
WinTick ==
    /\ now < MaxTime
    /\ now' = now + 1
    /\ obs' = [obs EXCEPT !.op = "tick", !.ret = "None"]
    /\ qmObs' = [qmObs EXCEPT !.op = "tick", !.ret = "None"]
    /\ UNCHANGED <<providers, km, calls, cb, cbCfg, cbObs, qm, qmCfg, ht, router>>

InitWin ==
    /\ providers = <<>>
    /\ now = 0
    /\ km = <<>>
    /\ calls = <<>>
    /\ cb = CB_init
    /\ cbCfg = [failure_threshold |-> 1, cooldown_seconds |-> 1]
    /\ cbObs = CBIdle
    /\ qm = QM_init
    /\ qmCfg = [rpm_limit |-> 2, tpm_limit |-> 0]
    /\ qmObs = QMObsIdle
    /\ ht = HT_init
    /\ router = Router_init("priority_failover")
    /\ obs = HTObsIdle

NextWin ==
    \/ HTT_record_success
    \/ HTT_record_failure
    \/ HTT_status
    \/ HTT_health
    \/ (Len(obs.hist) + Len(qmObs.hist) < MaxSamples /\ QMT_record_usage)
    \/ QMT_requests_in_window
    \/ QMT_tokens_in_window
    \/ WinTick

SpecWin == InitWin /\ [][NextWin]_vars

-----------------------------------------------------------------------------
(* SpecHT: one ProviderHealthTracker shared by threads. One thread reads   *)
(* health, line by line; the others call record_success, record_failure    *)
(* and status, each of which runs under the lock. The loads of lines       *)
(* 115-118 and 123-124 are made without the lock, so that a call of        *)
(* another thread may fall between any two of them.                        *)

\* health is entered: lines 102-110 under the lock
HTR_begin ==
    /\ obs.pc = "idle"
    /\ LET r == HT_window_rate(ht, now)
       IN  /\ ht' = r.ht
           /\ obs' = [obs EXCEPT !.pc = "status", !.op = "health_begin",
                                 !.ret = "None",
                                 !.snap = [SnapshotInit EXCEPT
                                              !.success_rate = r.ret]]
    /\ UNCHANGED <<providers, now, km, calls, cb, cbCfg, cbObs, qm, qmCfg, qmObs, router>>

\* line 114: self.status, under the lock
HTR_status ==
    /\ obs.pc = "status"
    /\ LET r == HT_status(ht, now)
       IN  /\ ht' = r.ht
           /\ obs' = [obs EXCEPT !.pc = "counter", !.i = 1,
                                 !.snap.status = r.ret]
    /\ UNCHANGED <<providers, now, km, calls, cb, cbCfg, cbObs, qm, qmCfg, qmObs, router>>

\* lines 115-118: one counter is loaded, without the lock
HTR_read_counter ==
    /\ obs.pc = "counter"
    /\ LET f == CounterFields[obs.i]
       IN  obs' = [obs EXCEPT
                      !.snap[f] = ht[f],
                      !.pc = IF obs.i = Len(CounterFields) THEN "percentile" ELSE @,
                      !.i = IF obs.i = Len(CounterFields) THEN 1 ELSE @ + 1]
    /\ UNCHANGED <<providers, now, km, calls, cb, cbCfg, cbObs, qm, qmCfg, qmObs, ht, router>>

\* lines 120-122: one _percentile call, under the lock
HTR_percentile ==
    /\ obs.pc = "percentile"
    /\ LET pct == Percentiles[obs.i]
       IN  obs' = [obs EXCEPT
                      !.snap[PctField(pct)] = HT_percentile(ht, pct),
                      !.pc = IF obs.i = Len(Percentiles) THEN "error" ELSE @,
                      !.i = IF obs.i = Len(Percentiles) THEN 1 ELSE @ + 1]
    /\ UNCHANGED <<providers, now, km, calls, cb, cbCfg, cbObs, qm, qmCfg, qmObs, ht, router>>

\* lines 123-124: last_error and last_error_time are loaded, without the
\* lock; after the second the snapshot is returned
HTR_read_error ==
    /\ obs.pc = "error"
    /\ LET f == ErrorFields[obs.i]
           snap == [obs.snap EXCEPT ![f] = ht[f]]
       IN  obs' = IF obs.i = Len(ErrorFields)
                  THEN [obs EXCEPT !.snap = SnapshotInit, !.pc = "idle", !.i = 0,
                                   !.op = "health", !.ret = snap]
                  ELSE [obs EXCEPT !.snap = snap, !.i = @ + 1]
    /\ UNCHANGED <<providers, now, km, calls, cb, cbCfg, cbObs, qm, qmCfg, qmObs, ht, router>>

\* time passes
HTTick ==
    /\ now < MaxTime
    /\ now' = now + 1
    /\ UNCHANGED <<providers, km, calls, cb, cbCfg, cbObs, qm, qmCfg, qmObs, ht, router, obs>>

NextHT ==
    \/ HTR_begin
    \/ HTR_status
    \/ HTR_read_counter
    \/ HTR_percentile
    \/ HTR_read_error
    \/ HTT_record_success
    \/ HTT_record_failure
    \/ HTT_status
    \/ HTTick

SpecHT == InitWin /\ [][NextHT]_vars

-----------------------------------------------------------------------------
(* SpecKM: one KeyManager, called by any number of callers. select_key     *)
(* runs under the manager's lock; a caller that got a key reports back     *)
(* with record_success or record_failure at any later moment. obs counts,  *)
(* from a moment the observer picks, how often each key was returned       *)
(* (counts), the keys handed out and not yet reported on (out), and        *)
(* whether in that time every key was usable at every select_key and no    *)
(* failure was recorded (clean).                                           *)

MaxSelects == 4

KMConfigs ==
    { Cfg("alpha", <<"a1", "a2">>,       1, 0, 0, 1, 1, 0),
      Cfg("alpha", <<"a1", "a2">>,       1, 1, 0, 2, 1, 0),
      Cfg("alpha", <<"a1", "a2", "a3">>, 1, 0, 0, 2, 2, 0) }

KMObsIdle(k) ==
    [op |-> "init", ret |-> -1, n |-> 0, clean |-> TRUE,
     counts |-> [i \in DOMAIN k.keys |-> 0],
     out |-> [i \in DOMAIN k.keys |-> 0]]

\* is_usable of the key and can_accept of its quota, evaluated at t
KeyAdmits(ks, cfg, est, t) ==
    /\ CB_can_execute(ks.circuit_breaker, cfg.cb_cooldown_s, t).ret
    /\ QM_can_accept(ks.quota_manager, cfg.rpm_limit, cfg.tpm_limit, est, t).ret

\* km.select_key()
KMT_select_key ==
    /\ obs.n < MaxSelects
    /\ LET cfg == providers[1]
           k == km[cfg.provider_id]
           r == KM_select_key(k, cfg, 0, now)
           usable == \A i \in DOMAIN k.keys : KeyAdmits(k.keys[i], cfg, 0, now)
       IN  /\ km' = [km EXCEPT ![cfg.provider_id] = r.km]
           /\ obs' = [obs EXCEPT
                         !.op = "select_key", !.ret = r.sel, !.n = @ + 1,
                         !.clean = @ /\ usable,
                         !.counts = IF r.sel = -1 THEN @
                                    ELSE [@ EXCEPT ![r.sel] = @ + 1],
                         !.out = IF r.sel = -1 THEN @
                                 ELSE [@ EXCEPT ![r.sel] = @ + 1]]
    /\ UNCHANGED <<providers, now, calls, cb, cbCfg, cbObs, qm, qmCfg, qmObs, ht, router>>

\* km.record_success(i, 0.0, 0) by a caller that holds key i
KMT_record_success ==
    /\ \E i \in DOMAIN obs.out :
          /\ obs.out[i] > 0
          /\ LET cfg == providers[1]
             IN  km' = [km EXCEPT ![cfg.provider_id] =
                          KM_record_success(@, cfg, i, 0, 0, now)]
          /\ obs' = [obs EXCEPT !.op = "record_success", !.ret = i,
                                !.out[i] = @ - 1]
    /\ UNCHANGED <<providers, now, calls, cb, cbCfg, cbObs, qm, qmCfg, qmObs, ht, router>>

\* km.record_failure(i, error) by a caller that holds key i
KMT_record_failure ==
    /\ \E i \in DOMAIN obs.out, err \in ReqErrors :
          /\ obs.out[i] > 0
          /\ LET cfg == providers[1]
             IN  km' = [km EXCEPT ![cfg.provider_id] =
                          KM_record_failure(@, cfg, i, err, 0, now)]
          /\ obs' = [obs EXCEPT !.op = "record_failure", !.ret = i,
                                !.out[i] = @ - 1, !.clean = FALSE]
    /\ UNCHANGED <<providers, now, calls, cb, cbCfg, cbObs, qm, qmCfg, qmObs, ht, router>>

\* the observer starts counting afresh
KMT_mark ==
    /\ obs.op = "select_key"
    /\ obs' = [obs EXCEPT !.op = "mark", !.ret = -1, !.clean = TRUE,
                          !.counts = [i \in DOMAIN @ |-> 0]]
    /\ UNCHANGED <<providers, now, km, calls, cb, cbCfg, cbObs, qm, qmCfg, qmObs, ht, router>>

\* time passes
KMT_tick ==
    /\ now < MaxTime
    /\ now' = now + 1
    /\ UNCHANGED <<providers, km, calls, cb, cbCfg, cbObs, qm, qmCfg, qmObs, ht, router, obs>>

InitKM ==
    /\ \E cfg \in KMConfigs :
          /\ providers = <<cfg>>
          /\ km = GW_init_key_managers(<<cfg>>)
          /\ obs = KMObsIdle(KM_init(cfg))
    /\ now = 0
    /\ calls = [c \in {} |-> CallInit]
    /\ cb = CB_init
    /\ cbCfg = [failure_threshold |-> 1, cooldown_seconds |-> 1]
    /\ cbObs = CBIdle
    /\ qm = QM_init
    /\ qmCfg = QMIdle
    /\ qmObs = QMObsIdle
    /\ ht = HT_init
    /\ router = Router_init("priority_failover")

NextKM ==
    \/ KMT_select_key
    \/ KMT_record_success
    \/ KMT_record_failure
    \/ KMT_mark
    \/ KMT_tick

SpecKM == InitKM /\ [][NextKM]_vars

-----------------------------------------------------------------------------
(* SpecRouter: a gateway over provider lists that hold providers without   *)
(* usable keys, its router asked for providers and chains from outside,    *)
(* and one execute call running through it.                                *)

MaxRouted == 3

\* provider lists with a provider of no keys and one of blank keys only,
\* each named gamma, the id the calls may prefer
RouterSets ==
    { << Cfg("gamma", <<>>,         1, 0, 0, 1, 1, 0),
         Cfg("alpha", <<"a1">>,     3, 0, 0, 1, 1, 0),
         Cfg("beta",  <<"b1">>,     2, 0, 0, 1, 1, 0) >>,
      << Cfg("alpha", <<"", "a1">>, 2, 0, 0, 1, 1, 1),
         Cfg("gamma", <<" ", "">>,  1, 0, 0, 1, 1, 1),
         Cfg("beta",  <<"b1">>,     2, 0, 0, 1, 1, 0) >> }

\* the exclude argument: nothing, or one provider
Excludes == {{}, {"alpha"}, {"beta"}}

RouterObsIdle == [op |-> "init", ret |-> 0, chain |-> <<>>, n |-> 0]

\* router.select_provider(exclude=...)
RT_select_provider ==
    /\ obs.n < MaxRouted
    /\ \E exclude \in Excludes :
          \E r \in Router_select_provider(router, providers, exclude) :
              /\ router' = r.router
              /\ obs' = [obs EXCEPT !.op = "select_provider", !.ret = r.ret,
                                    !.chain = <<>>, !.n = @ + 1]
    /\ UNCHANGED <<providers, now, km, calls, cb, cbCfg, cbObs, qm, qmCfg, qmObs, ht>>

\* router.get_fallback_chain(exclude=...)
RT_get_fallback_chain ==
    /\ \E exclude \in Excludes :
          obs' = [obs EXCEPT !.op = "get_fallback_chain", !.ret = 0,
                            !.chain = Router_get_fallback_chain(providers, exclude)]
    /\ UNCHANGED <<providers, now, km, calls, cb, cbCfg, cbObs, qm, qmCfg, qmObs, ht, router>>

\* the one execute call and the outcomes of its request_fn calls
RT_execute == GW_execute(1)
RT_request_returns == GW_request_returns(1)
RT_request_raises == GW_request_raises(1)
RT_request_times_out == GW_request_times_out(1)
RT_wake == GW_wake(1)

InitRouter ==
    /\ providers \in RouterSets
    /\ now = 0
    /\ km = GW_init_key_managers(providers)
    /\ calls = [c \in CallIds |-> CallInit]
    /\ cb = CB_init
    /\ cbCfg = [failure_threshold |-> 1, cooldown_seconds |-> 1]
    /\ cbObs = CBIdle
    /\ qm = QM_init
    /\ qmCfg = QMIdle
    /\ qmObs = QMObsIdle
    /\ ht = HT_init
    /\ router \in {Router_init(s) : s \in Strategies}
    /\ obs = RouterObsIdle

NextRouter ==
    \/ RT_select_provider
    \/ RT_get_fallback_chain
    \/ RT_execute
    \/ RT_request_returns
    \/ RT_request_raises
    \/ RT_request_times_out
    \/ RT_wake
    \/ Tick

SpecRouter == InitRouter /\ [][NextRouter]_vars

-----------------------------------------------------------------------------
(* SpecAdmin: a gateway with one execute call running through it, and the *)
(* monitoring and admin calls made on it from outside. obs keeps the last  *)
(* such call: its provider, what it returned and when, the provider's key  *)
(* manager before and after it, and, for a get_health whose predecessor   *)
(* was a get_health of the same provider with the key manager untouched    *)
(* since (chained), what that one returned and when.                       *)

\* the provider ids asked about; gamma is not configured
AdminIds == {"alpha", "beta", "gamma"}

\* what stands for the key manager of a provider that has none
NoKm == [keys |-> <<>>, rr_index |-> 0]

AdminObsIdle ==
    [op |-> "init", pid |-> "None", ret |-> "None", t |-> 0,
     known |-> FALSE, before |-> NoKm, after |-> NoKm,
     chained |-> FALSE, prevRet |-> "None", prevT |-> 0]

\* self._key_managers.get(pid)
KmOf(kms, pid) == IF pid \in DOMAIN kms THEN kms[pid] ELSE NoKm

\* gateway.get_health(pid)
AD_get_health ==
    /\ \E pid \in AdminIds :
          LET r == GW_get_health(km, providers, pid, now)
              chained == /\ obs.op = "get_health"
                         /\ obs.pid = pid
                         /\ obs.after = KmOf(km, pid)
          IN  /\ km' = r.km
              /\ obs' = [op |-> "get_health", pid |-> pid, ret |-> r.ret,
                         t |-> now, known |-> pid \in DOMAIN km,
                         before |-> KmOf(km, pid), after |-> KmOf(r.km, pid),
                         chained |-> chained,
                         prevRet |-> IF chained THEN obs.ret ELSE "None",
                         prevT |-> IF chained THEN obs.t ELSE 0]
    /\ UNCHANGED <<providers, now, calls, cb, cbCfg, cbObs, qm, qmCfg, qmObs, ht, router>>

\* gateway.reset_provider(pid)
AD_reset_provider ==
    /\ \E pid \in AdminIds :
          LET r == GW_reset_provider(km, pid)
          IN  /\ km' = r.km
              /\ obs' = [AdminObsIdle EXCEPT
                            !.op = "reset_provider", !.pid = pid, !.ret = r.ret,
                            !.t = now, !.known = pid \in DOMAIN km,
                            !.before = KmOf(km, pid), !.after = KmOf(r.km, pid)]
    /\ UNCHANGED <<providers, now, calls, cb, cbCfg, cbObs, qm, qmCfg, qmObs, ht, router>>

InitAdmin ==
    /\ providers = TwoProviders
    /\ now = 0
    /\ km = GW_init_key_managers(providers)
    /\ calls = [c \in CallIds |-> CallInit]
    /\ cb = CB_init
    /\ cbCfg = [failure_threshold |-> 1, cooldown_seconds |-> 1]
    /\ cbObs = CBIdle
    /\ qm = QM_init
    /\ qmCfg = QMIdle
    /\ qmObs = QMObsIdle
    /\ ht = HT_init
    /\ router = Router_init("priority_failover")
    /\ obs = AdminObsIdle

NextAdmin ==
    \/ AD_get_health
    \/ AD_reset_provider
    \/ RT_execute
    \/ RT_request_returns
    \/ RT_request_raises
    \/ RT_request_times_out
    \/ RT_wake
    \/ Tick

SpecAdmin == InitAdmin /\ [][NextAdmin]_vars

-----------------------------------------------------------------------------
(* SpecLocks: threads calling into one KeyManager, its keys' components    *)
(* and the router. Each method is cut at its `with self._lock` blocks: a   *)
(* thread runs a list of instructions, acq (enter the block: take the      *)
(* lock, which no other thread may hold, and run the block's statements up *)
(* to the next lock operation) and rel (leave the block). obs.th[t] is the *)
(* thread: the method it is in, the instructions left, the locks it holds  *)
(* and, inside select_key, the loop's start, i and the last bool returned. *)

MaxThreads == 2
\* methods the threads may call, all together
MaxLockOps == 3

Threads == 1..MaxThreads

\* the one provider of SpecLocks
LockCfg == Cfg("alpha", <<"a1", "a2">>, 1, 1, 0, 1, 1, 0)

\* the locks: of the KeyManager, of the router, and of the three components
\* of key i
KmLock == <<"km", -1>>
RouterLock == <<"router", -1>>
CbLock(i) == <<"cb", i>>
QmLock(i) == <<"qm", i>>
HtLock(i) == <<"ht", i>>

Acq(lock, do, key) == [kind |-> "acq", lock |-> lock, do |-> do, key |-> key]
Rel(lock, do, key) == [kind |-> "rel", lock |-> lock, do |-> do, key |-> key]

\* one `with self._lock:` block of a component of key i
Block(lock, do, key) == <<Acq(lock, do, key), Rel(lock, "pass", key)>>

ThreadIdle ==
    [op |-> "idle", todo |-> <<>>, held |-> {}, start |-> 0, i |-> 0,
     ret |-> FALSE, last |-> "pass"]

\* KeyManager.record_success(i, ...): three calls, one after the other
Prog_record_success(i) ==
    Block(CbLock(i), "cb_record_success", i)
      \o Block(QmLock(i), "qm_record_usage", i)
      \o Block(HtLock(i), "ht_record_success", i)

\* KeyManager.record_failure(i, ...)
Prog_record_failure(i) ==
    Block(CbLock(i), "cb_record_failure", i)
      \o Block(HtLock(i), "ht_record_failure", i)

\* variant: health calls status without leaving its own block first
Prog_health_nested(i) ==
    <<Acq(HtLock(i), "ht_window_rate", i)>>
      \o Block(HtLock(i), "ht_status", i)
      \o <<Rel(HtLock(i), "pass", i)>>
      \o Block(HtLock(i), "ht_percentile", i)
      \o Block(HtLock(i), "ht_percentile", i)
      \o Block(HtLock(i), "ht_percentile", i)

\* the health property of key i's tracker: its own block, then status and
\* the three _percentile calls, each a block of its own
Prog_health(i) ==
    Block(HtLock(i), "ht_window_rate", i)
      \o Block(HtLock(i), "ht_status", i)
      \o Block(HtLock(i), "ht_percentile", i)
      \o Block(HtLock(i), "ht_percentile", i)
      \o Block(HtLock(i), "ht_percentile", i)

\* get_health: for every key, the tracker's health and can_execute
RECURSIVE Prog_get_health(_, _)
Prog_get_health(i, count) ==
    IF i >= count THEN <<>>
    ELSE Prog_health(i) \o Block(CbLock(i), "cb_can_execute", i)
           \o Prog_get_health(i + 1, count)

\* _select_round_robin
Prog_select_round_robin == Block(RouterLock, "rr_next", -1)

\* select_key: the block of the manager is entered
Prog_select_key == <<Acq(KmLock, "sk_begin", -1)>>

\* select_key, inside the manager's block, when the instructions at hand
\* have run out: the next thing the loop does
SK_continue(th, count) ==
    LET idx == (th.start + th.i) % count
        last == th.last
    IN  IF last = "sk_begin"
        THEN IF count = 0 THEN [th EXCEPT !.todo = <<Rel(KmLock, "pass", -1)>>]
             ELSE [th EXCEPT !.todo = Block(CbLock(idx), "cb_can_execute", idx)]
        ELSE IF last = "cb_can_execute" /\ th.ret
        THEN [th EXCEPT !.todo = Block(QmLock(idx), "qm_can_accept", idx)]
        ELSE IF last = "qm_can_accept" /\ th.ret
        THEN [th EXCEPT !.todo = <<Rel(KmLock, "sk_found", idx)>>]
        ELSE IF th.i + 1 >= count
        THEN [th EXCEPT !.todo = <<Rel(KmLock, "pass", -1)>>]
        ELSE [th EXCEPT
                !.i = @ + 1,
                !.todo = Block(CbLock((th.start + th.i + 1) % count),
                               "cb_can_execute",
                               (th.start + th.i + 1) % count)]

\* the statements of one instruction, on the manager k and the router r:
\* what they leave and the bool they return
Effect(ins, k, r, cfg, t) ==
    LET i == ins.key
        same == [km |-> k, router |-> r, ret |-> FALSE]
    IN  CASE ins.do = "cb_can_execute" ->
               LET x == CB_can_execute(k.keys[i].circuit_breaker,
                                       cfg.cb_cooldown_s, t)
               IN  [same EXCEPT !.km.keys[i].circuit_breaker = x.cb,
                                !.ret = x.ret]
          [] ins.do = "qm_can_accept" ->
               LET x == QM_can_accept(k.keys[i].quota_manager,
                                      cfg.rpm_limit, cfg.tpm_limit, 0, t)
               IN  [same EXCEPT !.km.keys[i].quota_manager = x.qm,
                                !.ret = x.ret]
          [] ins.do = "cb_record_success" ->
               [same EXCEPT !.km.keys[i].circuit_breaker = CB_record_success(@)]
          [] ins.do = "cb_record_failure" ->
               [same EXCEPT !.km.keys[i].circuit_breaker =
                               CB_record_failure(@, cfg.cb_failure_threshold, t)]
          [] ins.do = "qm_record_usage" ->
               [same EXCEPT !.km.keys[i].quota_manager =
                               QM_record_usage(@, cfg.rpm_limit, 0, t)]
          [] ins.do = "ht_record_success" ->
               [same EXCEPT !.km.keys[i].health_tracker =
                               HT_record_success(@, 0, t)]
          [] ins.do = "ht_record_failure" ->
               [same EXCEPT !.km.keys[i].health_tracker =
                               HT_record_failure(@, "ConnectionError: down", 0, t)]
          [] ins.do = "ht_window_rate" ->
               [same EXCEPT !.km.keys[i].health_tracker =
                               HT_window_rate(@, t).ht]
          [] ins.do = "ht_status" ->
               [same EXCEPT !.km.keys[i].health_tracker = HT_status(@, t).ht]
          [] ins.do = "rr_next" ->
               [same EXCEPT !.router.rr_index = @ + 1]
          [] ins.do = "sk_found" ->
               [same EXCEPT !.km.rr_index = (i + 1) % KeyCount(k)]
          [] OTHER -> same

\* variant: leaving a block does not give the lock back
HeldAfterRelease_kept(held, lock) == held

\* the locks a thread holds after it has left the block of one
HeldAfterRelease(held, lock) == held \ {lock}

\* a thread calls a method
LK_call(t) ==
    /\ obs.th[t].op = "idle"
    /\ obs.n < MaxLockOps
    /\ \E c \in {[op |-> "select_key", todo |-> Prog_select_key],
                  [op |-> "get_health",
                   todo |-> Prog_get_health(0, KeyCount(km[LockCfg.provider_id]))],
                  [op |-> "select_round_robin", todo |-> Prog_select_round_robin]}
               \cup {[op |-> "record_success", todo |-> Prog_record_success(i)] :
                        i \in DOMAIN km[LockCfg.provider_id].keys}
               \cup {[op |-> "record_failure", todo |-> Prog_record_failure(i)] :
                        i \in DOMAIN km[LockCfg.provider_id].keys} :
          obs' = [obs EXCEPT
                    !.n = @ + 1,
                    !.th[t] = [ThreadIdle EXCEPT
                                  !.op = c.op, !.todo = c.todo,
                                  !.start = km[LockCfg.provider_id].rr_index]]
    /\ UNCHANGED <<providers, now, km, calls, cb, cbCfg, cbObs, qm, qmCfg, qmObs, ht, router>>

\* the thread after an instruction has run; inside select_key the loop
\* goes on, anywhere else an empty list ends the method
LK_after(th, ins, ret, held, count) ==
    LET th1 == [th EXCEPT !.todo = Tail(@), !.held = held]
        th2 == IF ins.kind = "acq"
               THEN [th1 EXCEPT !.ret = ret, !.last = ins.do]
               ELSE th1
    IN  IF th2.todo # <<>> THEN th2
        ELSE IF KmLock \in th2.held THEN SK_continue(th2, count)
        ELSE ThreadIdle

\* a thread enters a block: it takes the lock, which nobody holds, and runs
\* the block's statements
LK_acquire(t) ==
    /\ obs.th[t].todo # <<>>
    /\ LET th == obs.th[t]
           ins == Head(th.todo)
           pid == LockCfg.provider_id
           x == Effect(ins, km[pid], router, LockCfg, now)
       IN  /\ ins.kind = "acq"
           /\ \A u \in Threads : ins.lock \notin obs.th[u].held
           /\ km' = [km EXCEPT ![pid] = x.km]
           /\ router' = x.router
           /\ obs' = [obs EXCEPT
                         !.th[t] = LK_after(th, ins, x.ret,
                                            th.held \cup {ins.lock},
                                            KeyCount(km[pid]))]
    /\ UNCHANGED <<providers, now, calls, cb, cbCfg, cbObs, qm, qmCfg, qmObs, ht>>

\* a thread leaves a block
LK_release(t) ==
    /\ obs.th[t].todo # <<>>
    /\ LET th == obs.th[t]
           ins == Head(th.todo)
           pid == LockCfg.provider_id
           x == Effect(ins, km[pid], router, LockCfg, now)
       IN  /\ ins.kind = "rel"
           /\ km' = [km EXCEPT ![pid] = x.km]
           /\ router' = x.router
           /\ obs' = [obs EXCEPT
                         !.th[t] = LK_after(th, ins, x.ret,
                                            HeldAfterRelease(th.held, ins.lock),
                                            KeyCount(km[pid]))]
    /\ UNCHANGED <<providers, now, calls, cb, cbCfg, cbObs, qm, qmCfg, qmObs, ht>>

\* time passes
LK_tick ==
    /\ now < MaxTime
    /\ now' = now + 1
    /\ UNCHANGED <<providers, km, calls, cb, cbCfg, cbObs, qm, qmCfg, qmObs, ht, router, obs>>

InitLocks ==
    /\ providers = <<LockCfg>>
    /\ now = 0
    /\ km = GW_init_key_managers(providers)
    /\ calls = [c \in CallIds |-> CallInit]
    /\ cb = CB_init
    /\ cbCfg = [failure_threshold |-> 1, cooldown_seconds |-> 1]
    /\ cbObs = CBIdle
    /\ qm = QM_init
    /\ qmCfg = QMIdle
    /\ qmObs = QMObsIdle
    /\ ht = HT_init
    /\ router = Router_init("round_robin")
    /\ obs = [n |-> 0, th |-> [t \in Threads |-> ThreadIdle]]

NextLocks ==
    \/ \E t \in Threads : LK_call(t)
    \/ \E t \in Threads : LK_acquire(t)
    \/ \E t \in Threads : LK_release(t)
    \/ LK_tick

SpecLocks == InitLocks /\ [][NextLocks]_vars

-----------------------------------------------------------------------------
(* SpecNew: the constructors. A gateway or a router is built from a list   *)
(* of configurations and a strategy; obs keeps which constructor ran, the  *)
(* strategy it was given and the exception it raised ("None" for none).    *)

\* the configurations the lists are made of: two of one provider_id
NewPool ==
    { Cfg("alpha", <<"a1", "a2">>, 1, 0, 0, 1, 1, 1),
      Cfg("alpha", <<"a3">>,       2, 0, 0, 1, 1, 0),
      Cfg("beta",  <<"b1">>,       2, 0, 0, 1, 1, 1),
      Cfg("gamma", <<>>,           3, 0, 0, 1, 1, 1) }

MaxProviders == 2

\* the lists of at most MaxProviders configurations
NewLists ==
    UNION {[1..n -> NewPool] : n \in 0..MaxProviders}

\* the keyword parameters of ProviderRouter.__init__
RouterParams ==
    {"strategy", "health_trackers", "circuit_breakers", "quota_managers"}

\* no key managers: the gateway was not built
NoKms == [p \in {} |-> NoKm]

\* ProviderRouter(providers, **kwargs): a keyword the signature does not
\* have raises TypeError before the body runs
Router_new(ps, kwargs) ==
    IF DOMAIN kwargs \subseteq RouterParams
    THEN [raised |-> "None", router |-> Router_init(kwargs.strategy)]
    ELSE [raised |-> "TypeError", router |-> Router_init("priority_failover")]

\* ResilientProviderGateway(providers, strategy=strategy): the key managers,
\* then the router, built with strategy= and key_managers=
GW_new(ps, strategy) ==
    LET kms == GW_init_key_managers(ps)
        r == Router_new(ps, [strategy |-> strategy, key_managers |-> kms])
    IN  IF r.raised # "None"
        THEN [raised |-> r.raised, km |-> NoKms, router |-> r.router]
        ELSE [raised |-> "None", km |-> kms, router |-> r.router]

NewObsIdle == [op |-> "init", strategy |-> "priority_failover", raised |-> "None"]

\* a gateway is constructed
NEW_gateway ==
    /\ obs.op = "init"
    /\ \E strategy \in Strategies :
          LET g == GW_new(providers, strategy)
          IN  /\ km' = g.km
              /\ router' = g.router
              /\ obs' = [op |-> "gateway", strategy |-> strategy,
                         raised |-> g.raised]
    /\ UNCHANGED <<providers, now, calls, cb, cbCfg, cbObs, qm, qmCfg, qmObs, ht>>

\* a router is constructed on its own, with a strategy only
NEW_router ==
    /\ obs.op = "init"
    /\ \E strategy \in Strategies :
          LET r == Router_new(providers, [strategy |-> strategy])
          IN  /\ router' = r.router
              /\ obs' = [op |-> "router", strategy |-> strategy,
                         raised |-> r.raised]
    /\ UNCHANGED <<providers, now, km, calls, cb, cbCfg, cbObs, qm, qmCfg, qmObs, ht>>

InitNew ==
    /\ providers \in NewLists
    /\ now = 0
    /\ km = NoKms
    /\ calls = [c \in CallIds |-> CallInit]
    /\ cb = CB_init
    /\ cbCfg = [failure_threshold |-> 1, cooldown_seconds |-> 1]
    /\ cbObs = CBIdle
    /\ qm = QM_init
    /\ qmCfg = QMIdle
    /\ qmObs = QMObsIdle
    /\ ht = HT_init
    /\ router = Router_init("priority_failover")
    /\ obs = NewObsIdle

NextNew ==
    \/ NEW_gateway
    \/ NEW_router

SpecNew == InitNew /\ [][NextNew]_vars

-----------------------------------------------------------------------------
(* SpecBackoff: one execute call on a gateway of one provider with enough  *)
(* keys and retries for the backoff to reach its ceiling.                  *)

\* seven keys and six retries, and three keys with more retries than keys;
\* a token quota that an estimate of 2 exceeds
BackoffSets ==
    { << Cfg("alpha", <<"a1", "a2", "a3", "a4", "a5", "a6", "a7">>,
             1, 0, 1, 1, 1, 6) >>,
      << Cfg("alpha", <<"a1", "a2", "a3">>, 1, 0, 1, 2, 1, 5) >> }

InitBackoff ==
    /\ providers \in BackoffSets
    /\ now = 0
    /\ km = GW_init_key_managers(providers)
    /\ calls = [c \in CallIds |-> CallInit]
    /\ cb = CB_init
    /\ cbCfg = [failure_threshold |-> 1, cooldown_seconds |-> 1]
    /\ cbObs = CBIdle
    /\ qm = QM_init
    /\ qmCfg = QMIdle
    /\ qmObs = QMObsIdle
    /\ ht = HT_init
    /\ router = Router_init("priority_failover")
    /\ obs = ObsIdle

NextBackoff ==
    \/ RT_execute
    \/ RT_request_returns
    \/ RT_request_raises
    \/ RT_request_times_out
    \/ RT_wake
    \/ Tick

SpecBackoff == InitBackoff /\ [][NextBackoff]_vars

-----------------------------------------------------------------------------
(* SpecFrame: the key managers of two providers, their select_key,         *)
(* record_success and record_failure called from outside in any order and  *)
(* with any key index. obs names the last call.                            *)

\* calls made, all together
MaxRecords == 3

\* key_index arguments: the keys of the larger provider and one past them
FrameIndexes == 0..2

FrameObsIdle == [op |-> "init", pid |-> "None", key |-> -1, n |-> 0]

\* km.select_key(est) on the manager of pid
FR_select_key ==
    /\ obs.n < MaxRecords
    /\ \E pid \in ProviderIds(providers), est \in EstTokens :
          LET r == KM_select_key(km[pid], ConfigOf(providers, pid), est, now)
          IN  /\ km' = [km EXCEPT ![pid] = r.km]
              /\ obs' = [op |-> "select_key", pid |-> pid, key |-> r.sel,
                         n |-> obs.n + 1]
    /\ UNCHANGED <<providers, now, calls, cb, cbCfg, cbObs, qm, qmCfg, qmObs, ht, router>>

\* km.record_success(i, latency_ms, tokens) on the manager of pid
FR_record_success ==
    /\ obs.n < MaxRecords
    /\ \E pid \in ProviderIds(providers), i \in FrameIndexes,
          latency_ms \in Latencies, tokens \in EstTokens :
          /\ km' = [km EXCEPT ![pid] =
                       KM_record_success(@, ConfigOf(providers, pid), i,
                                         latency_ms, tokens, now)]
          /\ obs' = [op |-> "record_success", pid |-> pid, key |-> i,
                     n |-> obs.n + 1]
    /\ UNCHANGED <<providers, now, calls, cb, cbCfg, cbObs, qm, qmCfg, qmObs, ht, router>>

\* km.record_failure(i, error) on the manager of pid
FR_record_failure ==
    /\ obs.n < MaxRecords
    /\ \E pid \in ProviderIds(providers), i \in FrameIndexes, err \in ReqErrors :
          /\ km' = [km EXCEPT ![pid] =
                       KM_record_failure(@, ConfigOf(providers, pid), i,
                                         err, 0, now)]
          /\ obs' = [op |-> "record_failure", pid |-> pid, key |-> i,
                     n |-> obs.n + 1]
    /\ UNCHANGED <<providers, now, calls, cb, cbCfg, cbObs, qm, qmCfg, qmObs, ht, router>>

\* time passes
FR_tick ==
    /\ now < MaxTime
    /\ now' = now + 1
    /\ UNCHANGED <<providers, km, calls, cb, cbCfg, cbObs, qm, qmCfg, qmObs, ht, router, obs>>

InitFrame ==
    /\ providers = TwoProviders
    /\ now = 0
    /\ km = GW_init_key_managers(providers)
    /\ calls = [c \in CallIds |-> CallInit]
    /\ cb = CB_init
    /\ cbCfg = [failure_threshold |-> 1, cooldown_seconds |-> 1]
    /\ cbObs = CBIdle
    /\ qm = QM_init
    /\ qmCfg = QMIdle
    /\ qmObs = QMObsIdle
    /\ ht = HT_init
    /\ router = Router_init("priority_failover")
    /\ obs = FrameObsIdle

NextFrame ==
    \/ FR_select_key
    \/ FR_record_success
    \/ FR_record_failure
    \/ FR_tick

SpecFrame == InitFrame /\ [][NextFrame]_vars

-----------------------------------------------------------------------------
(* SpecStatus: one ProviderHealthTracker with the default thresholds, and  *)
(* enough samples for the failure rate to meet either threshold exactly.   *)
(* obs names the last call and what it returned.                           *)

\* record_success and record_failure calls, all together
MaxStatusSamples == 10

StatusObsIdle == [op |-> "init", ret |-> "None"]

\* ht.record_success(0.0)
ST_record_success ==
    /\ ht.total_requests < MaxStatusSamples
    /\ ht' = HT_record_success(ht, 0, now)
    /\ obs' = [op |-> "record_success", ret |-> "None"]
    /\ UNCHANGED <<providers, now, km, calls, cb, cbCfg, cbObs, qm, qmCfg, qmObs, router>>

\* ht.record_failure(error)
ST_record_failure ==
    /\ ht.total_requests < MaxStatusSamples
    /\ \E error \in ReqErrors :
          ht' = HT_record_failure(ht, error, 0, now)
    /\ obs' = [op |-> "record_failure", ret |-> "None"]
    /\ UNCHANGED <<providers, now, km, calls, cb, cbCfg, cbObs, qm, qmCfg, qmObs, router>>

\* ht.status
ST_status ==
    /\ LET r == HT_status(ht, now)
       IN  /\ ht' = r.ht
           /\ obs' = [op |-> "status", ret |-> r.ret]
    /\ UNCHANGED <<providers, now, km, calls, cb, cbCfg, cbObs, qm, qmCfg, qmObs, router>>

\* time passes
ST_tick ==
    /\ now < MaxTime
    /\ now' = now + 1
    /\ obs' = [op |-> "tick", ret |-> "None"]
    /\ UNCHANGED <<providers, km, calls, cb, cbCfg, cbObs, qm, qmCfg, qmObs, ht, router>>

InitStatus ==
    /\ providers = <<>>
    /\ now = 0
    /\ km = <<>>
    /\ calls = <<>>
    /\ cb = CB_init
    /\ cbCfg = [failure_threshold |-> 1, cooldown_seconds |-> 1]
    /\ cbObs = CBIdle
    /\ qm = QM_init
    /\ qmCfg = QMIdle
    /\ qmObs = QMObsIdle
    /\ ht = HT_init
    /\ router = Router_init("priority_failover")
    /\ obs = StatusObsIdle

NextStatus ==
    \/ ST_record_success
    \/ ST_record_failure
    \/ ST_status
    \/ ST_tick

SpecStatus == InitStatus /\ [][NextStatus]_vars

-----------------------------------------------------------------------------
(* SpecSupplied: a ProviderRouter built, as the router tests build it,     *)
(* with a circuit breaker, a health tracker and a quota manager registered *)
(* for some of its providers. The three components are cb, ht and qm;      *)
(* obs.dicts names the provider each is registered for. Callers ask the    *)
(* router and record outcomes on the components in any order.              *)

\* calls made, all together
MaxSupplied == 4

\* which provider each dict has an entry for, with the settings of the
\* breaker and of the quota manager
SuppliedDicts ==
    { [circuits |-> "beta", health |-> "alpha", quotas |-> "gamma",
       cooldown |-> 1, rpm_limit |-> 1, tpm_limit |-> 0],
      [circuits |-> "beta", health |-> "beta", quotas |-> "beta",
       cooldown |-> 1, rpm_limit |-> 0, tpm_limit |-> 3],
      [circuits |-> "None", health |-> "gamma", quotas |-> "alpha",
       cooldown |-> 1, rpm_limit |-> 1, tpm_limit |-> 0] }

SuppliedExcludes == {{}, {"beta"}, {"alpha", "beta"}}

\* router.select_provider(exclude=..., estimated_tokens=...)
RS_select_provider ==
    /\ obs.n < MaxSupplied
    /\ \E exclude \in SuppliedExcludes, est \in EstTokens :
          \E x \in Router_select_supplied(router, providers, obs.dicts,
                                          [cb |-> cb, ht |-> ht, qm |-> qm],
                                          exclude, est, now) :
             /\ router' = x.router
             /\ cb' = x.st.cb /\ ht' = x.st.ht /\ qm' = x.st.qm
             /\ obs' = [obs EXCEPT !.op = "select_provider", !.ret = x.ret,
                                   !.chain = <<>>, !.exclude = exclude,
                                   !.est = est, !.n = @ + 1]
    /\ UNCHANGED <<providers, now, km, calls, cbCfg, cbObs, qmCfg, qmObs>>

\* router.get_fallback_chain(exclude=..., estimated_tokens=...)
RS_get_fallback_chain ==
    /\ obs.n < MaxSupplied
    /\ \E exclude \in SuppliedExcludes, est \in EstTokens :
          LET x == Router_chain_supplied(providers, obs.dicts,
                                         [cb |-> cb, ht |-> ht, qm |-> qm],
                                         exclude, est, now)
          IN  /\ cb' = x.st.cb /\ ht' = x.st.ht /\ qm' = x.st.qm
              /\ obs' = [obs EXCEPT !.op = "get_fallback_chain", !.ret = 0,
                                    !.chain = x.chain, !.exclude = exclude,
                                    !.est = est, !.n = @ + 1]
    /\ UNCHANGED <<providers, now, km, calls, cbCfg, cbObs, qmCfg, qmObs, router>>

\* a caller reports a failure: breaker.record_failure() and
\* tracker.record_failure(error)
RS_record_failure ==
    /\ obs.n < MaxSupplied
    /\ cb' = CB_record_failure(cb, cbCfg.failure_threshold, now)
    /\ ht' = HT_record_failure(ht, "ConnectionError: down", 0, now)
    /\ obs' = [obs EXCEPT !.op = "record_failure", !.ret = 0, !.chain = <<>>,
                          !.exclude = {}, !.est = 0, !.n = @ + 1]
    /\ UNCHANGED <<providers, now, km, calls, cbCfg, cbObs, qm, qmCfg, qmObs, router>>

\* a caller reports a success: breaker.record_success(),
\* quota.record_usage(tokens) and tracker.record_success(latency_ms)
RS_record_success ==
    /\ obs.n < MaxSupplied
    /\ \E tokens \in EstTokens :
          qm' = QM_record_usage(qm, obs.dicts.rpm_limit, tokens, now)
    /\ cb' = CB_record_success(cb)
    /\ ht' = HT_record_success(ht, TickMs, now)
    /\ obs' = [obs EXCEPT !.op = "record_success", !.ret = 0, !.chain = <<>>,
                          !.exclude = {}, !.est = 0, !.n = @ + 1]
    /\ UNCHANGED <<providers, now, km, calls, cbCfg, cbObs, qmCfg, qmObs, router>>

\* time passes
RS_tick ==
    /\ now < MaxTime
    /\ now' = now + 1
    /\ UNCHANGED <<providers, km, calls, cb, cbCfg, cbObs, qm, qmCfg, qmObs, ht, router, obs>>

InitSupplied ==
    /\ providers = ThreeProviders
    /\ now = 0
    /\ km = GW_init_key_managers(providers)
    /\ calls = [c \in CallIds |-> CallInit]
    /\ cb = CB_init
    /\ cbCfg = [failure_threshold |-> 1, cooldown_seconds |-> 1]
    /\ cbObs = CBIdle
    /\ qm = QM_init
    /\ qmCfg = QMIdle
    /\ qmObs = QMObsIdle
    /\ ht = HT_init
    /\ \E strategy \in Strategies : router = Router_init(strategy)
    /\ \E d \in SuppliedDicts :
          obs = [op |-> "init", ret |-> 0, chain |-> <<>>, exclude |-> {},
                 est |-> 0, n |-> 0, dicts |-> d]

NextSupplied ==
    \/ RS_select_provider
    \/ RS_get_fallback_chain
    \/ RS_record_failure
    \/ RS_record_success
    \/ RS_tick

SpecSupplied == InitSupplied /\ [][NextSupplied]_vars

-----------------------------------------------------------------------------
(* SpecCancel: one execute call whose task may be cancelled from outside   *)
(* while it awaits request_fn or the backoff sleep                         *)

SC_execute == GW_execute(1)
SC_request_returns == GW_request_returns(1)
SC_request_raises == GW_request_raises(1)
SC_request_times_out == GW_request_times_out(1)
SC_wake == GW_wake(1)
SC_cancel == GW_cancel(1)

InitCancel ==
    /\ providers \in ProviderSets
    /\ now = 0
    /\ km = GW_init_key_managers(providers)
    /\ calls = [c \in CallIds |-> CallInit]
    /\ cb = CB_init
    /\ cbCfg = [failure_threshold |-> 1, cooldown_seconds |-> 1]
    /\ cbObs = CBIdle
    /\ qm = QM_init
    /\ qmCfg = QMIdle
    /\ qmObs = QMObsIdle
    /\ ht = HT_init
    /\ router = Router_init("priority_failover")
    /\ obs = ObsIdle

NextCancel ==
    \/ SC_execute
    \/ SC_request_returns
    \/ SC_request_raises
    \/ SC_request_times_out
    \/ SC_wake
    \/ SC_cancel
    \/ Tick

SpecCancel == InitCancel /\ [][NextCancel]_vars

-----------------------------------------------------------------------------
(* SpecLLM: ResilientLLMAdapter (adapters/outbound/llm/__init__.py) over   *)
(* the configurations build_provider_configs makes, one invoke call        *)

\* LLMProvider (domain/enums.py): the members and their values
LLMProvider ==
    { [name |-> "ANTHROPIC", value |-> "ANTHROPIC"],
      [name |-> "GOOGLE",    value |-> "GOOGLE"],
      [name |-> "OPENAI",    value |-> "OPENAI"] }

\* build_provider_configs with the default priority_order
\* "google,anthropic,openai", two Anthropic keys and one key for each of
\* the others; the limits of
\* 50 and 60 requests a minute, which one call cannot reach, are scaled to 3,
\* cb_failure_threshold to 2 and cb_cooldown_s to one tick
LLMConfigs ==
    << Cfg("anthropic", <<"ka1", "ka2">>, 2, 3, 0, 2, 1, 2),
       Cfg("openai",    <<"ko">>, 3, 3, 0, 2, 1, 2),
       Cfg("google",    <<"kg">>, 1, 3, 0, 2, 1, 2) >>

\* the same with no Google key configured
LLMConfigsNoGoogle ==
    << Cfg("anthropic", <<"ka1", "ka2">>, 2, 3, 0, 2, 1, 2),
       Cfg("openai",    <<"ko">>, 3, 3, 0, 2, 1, 2),
       Cfg("google",    <<>>,     1, 3, 0, 2, 1, 2) >>

\* invoke, line 147: preferred = provider.value if provider else None
LLM_preferred(provider) ==
    IF provider.name = "None" THEN "None" ELSE provider.value

\* invoke(provider=..., max_tokens=...): gateway.execute(_call,
\* estimated_tokens=max_tokens, preferred_provider=preferred), up to the
\* first request
LLM_invoke ==
    /\ calls[1].pc = "idle"
    /\ \E provider \in LLMProvider \cup {[name |-> "None", value |-> "None"]},
          max_tokens \in EstTokens :
         LET preferred == LLM_preferred(provider)
             cl == [CallInit EXCEPT
                       !.pc = "chain", !.est = max_tokens,
                       !.preferred = preferred,
                       !.chain = GW_build_chain(providers, preferred, max_tokens),
                       !.unhealthy =
                           {pid \in ProviderIds(providers) :
                               ~KM_any_healthy(km[pid], ConfigOf(providers, pid),
                                               now).ret}]
             st == GW_run([cl |-> cl, km |-> km], providers, now)
         IN  /\ calls' = [calls EXCEPT ![1] = st.cl]
             /\ km' = st.km
             /\ obs' = [op |-> "invoke",
                        provider |-> provider.name]
    /\ UNCHANGED <<providers, now, cb, cbCfg, cbObs, qm, qmCfg, qmObs, ht, router>>

LLM_request_returns == GW_request_returns(1)
LLM_request_raises == GW_request_raises(1)
LLM_request_times_out == GW_request_times_out(1)
LLM_wake == GW_wake(1)

InitLLM ==
    /\ providers \in {LLMConfigs, LLMConfigsNoGoogle}
    /\ now = 0
    /\ km = GW_init_key_managers(providers)
    /\ calls = [c \in CallIds |-> CallInit]
    /\ cb = CB_init
    /\ cbCfg = [failure_threshold |-> 1, cooldown_seconds |-> 1]
    /\ cbObs = CBIdle
    /\ qm = QM_init
    /\ qmCfg = QMIdle
    /\ qmObs = QMObsIdle
    /\ ht = HT_init
    /\ router = Router_init("priority_failover")
    /\ obs = ObsIdle

NextLLM ==
    \/ LLM_invoke
    \/ LLM_request_returns
    \/ LLM_request_raises
    \/ LLM_request_times_out
    \/ LLM_wake
    \/ Tick

SpecLLM == InitLLM /\ [][NextLLM]_vars

-----------------------------------------------------------------------------
(* SpecOrder: one Order (domain/entities/__init__.py), its lifecycle       *)
(* methods called in any order. obs.order is the entity, obs.prev the      *)
(* entity before the last call, obs.path the statuses that call assigned   *)

\* calls made on the order
MaxOrderCalls == 4

\* OrderStatus (domain/enums.py)
OrderStatus ==
    {"PENDING_VALIDATION", "VALIDATED", "REJECTED", "SUBMITTED", "OPEN",
     "PARTIALLY_FILLED", "FILLED", "CANCELLED", "EXPIRED", "FAILED"}

\* _ORDER_TRANSITIONS.get(status, set())
ORDER_TRANSITIONS(status) ==
    CASE status = "PENDING_VALIDATION" -> {"VALIDATED", "REJECTED"}
      [] status = "VALIDATED" -> {"SUBMITTED", "REJECTED"}
      [] status = "SUBMITTED" -> {"OPEN", "FILLED", "FAILED", "REJECTED"}
      [] status = "OPEN" -> {"PARTIALLY_FILLED", "FILLED", "CANCELLED", "EXPIRED"}
      [] status = "PARTIALLY_FILLED" -> {"FILLED", "CANCELLED"}
      [] OTHER -> {}

\* OrderStatus.can_transition_to
Order_can_transition_to(status, target) == target \in ORDER_TRANSITIONS(status)

\* Order(): the defaults of the dataclass
Order_new(t) ==
    [status |-> "PENDING_VALIDATION", broker_order_id |-> "None",
     rejection_reason |-> "None", updated_at |-> t]

\* the reason arguments ("None" for None; the empty string is falsy) and the
\* broker order ids
OrderReasons == {"None", "", "Too risky"}
BrokerIds == {"B-1", "B-2"}

\* transition_to(new_status, reason) on r.order, unless an earlier statement
\* of the method has raised; r = [order, raised, path]
Order_transition_to(r, new_status, reason, t) ==
    IF r.raised THEN r
    ELSE IF ~Order_can_transition_to(r.order.status, new_status)
    THEN [r EXCEPT !.raised = TRUE]
    ELSE [order |-> [r.order EXCEPT
                        !.status = new_status, !.updated_at = t,
                        !.rejection_reason =
                            IF new_status = "REJECTED" /\ reason \notin {"None", ""}
                            THEN reason ELSE @],
          raised |-> FALSE,
          path |-> Append(r.path, new_status)]

OrderCall(o) == [order |-> o, raised |-> FALSE, path |-> <<>>]

Order_validate(o, t) == Order_transition_to(OrderCall(o), "VALIDATED", "None", t)

Order_reject(o, reason, t) == Order_transition_to(OrderCall(o), "REJECTED", reason, t)

\* submit: the broker order id is stored, then the transition is made
Order_submit(o, broker_order_id, t) ==
    Order_transition_to(OrderCall([o EXCEPT !.broker_order_id = broker_order_id]),
                        "SUBMITTED", "None", t)

\* fill: a SUBMITTED order is opened first
Order_fill(o, t) ==
    LET r == IF o.status = "SUBMITTED"
             THEN Order_transition_to(OrderCall(o), "OPEN", "None", t)
             ELSE OrderCall(o)
    IN  Order_transition_to(r, "FILLED", "None", t)

Order_cancel(o, t) == Order_transition_to(OrderCall(o), "CANCELLED", "None", t)

\* the record of one call on the order
OrderObs(op, target, r) ==
    [op |-> op, target |-> target, order |-> r.order, prev |-> obs.order,
     raised |-> r.raised, path |-> r.path, n |-> obs.n + 1]

OR_transition_to ==
    /\ obs.n < MaxOrderCalls
    /\ \E new_status \in OrderStatus, reason \in OrderReasons :
          obs' = OrderObs("transition_to", new_status,
                          Order_transition_to(OrderCall(obs.order), new_status,
                                              reason, now))
    /\ UNCHANGED <<providers, now, km, calls, cb, cbCfg, cbObs, qm, qmCfg, qmObs, ht, router>>

OR_validate ==
    /\ obs.n < MaxOrderCalls
    /\ obs' = OrderObs("validate", "VALIDATED", Order_validate(obs.order, now))
    /\ UNCHANGED <<providers, now, km, calls, cb, cbCfg, cbObs, qm, qmCfg, qmObs, ht, router>>

OR_reject ==
    /\ obs.n < MaxOrderCalls
    /\ \E reason \in OrderReasons \ {"None"} :
          obs' = OrderObs("reject", "REJECTED", Order_reject(obs.order, reason, now))
    /\ UNCHANGED <<providers, now, km, calls, cb, cbCfg, cbObs, qm, qmCfg, qmObs, ht, router>>

OR_submit ==
    /\ obs.n < MaxOrderCalls
    /\ \E broker_order_id \in BrokerIds :
          obs' = OrderObs("submit", "SUBMITTED",
                          Order_submit(obs.order, broker_order_id, now))
    /\ UNCHANGED <<providers, now, km, calls, cb, cbCfg, cbObs, qm, qmCfg, qmObs, ht, router>>

OR_fill ==
    /\ obs.n < MaxOrderCalls
    /\ obs' = OrderObs("fill", "FILLED", Order_fill(obs.order, now))
    /\ UNCHANGED <<providers, now, km, calls, cb, cbCfg, cbObs, qm, qmCfg, qmObs, ht, router>>

OR_cancel ==
    /\ obs.n < MaxOrderCalls
    /\ obs' = OrderObs("cancel", "CANCELLED", Order_cancel(obs.order, now))
    /\ UNCHANGED <<providers, now, km, calls, cb, cbCfg, cbObs, qm, qmCfg, qmObs, ht, router>>

\* time passes
OR_tick ==
    /\ now < MaxTime
    /\ now' = now + 1
    /\ UNCHANGED <<providers, km, calls, cb, cbCfg, cbObs, qm, qmCfg, qmObs, ht, router, obs>>

InitOrder ==
    /\ providers = TwoProviders
    /\ now = 0
    /\ km = GW_init_key_managers(providers)
    /\ calls = [c \in CallIds |-> CallInit]
    /\ cb = CB_init
    /\ cbCfg = [failure_threshold |-> 1, cooldown_seconds |-> 1]
    /\ cbObs = CBIdle
    /\ qm = QM_init
    /\ qmCfg = QMIdle
    /\ qmObs = QMObsIdle
    /\ ht = HT_init
    /\ router = Router_init("priority_failover")
    /\ obs = [op |-> "init", target |-> "None", order |-> Order_new(0),
              prev |-> Order_new(0), raised |-> FALSE, path |-> <<>>, n |-> 0]

NextOrder ==
    \/ OR_transition_to
    \/ OR_validate
    \/ OR_reject
    \/ OR_submit
    \/ OR_fill
    \/ OR_cancel
    \/ OR_tick

SpecOrder == InitOrder /\ [][NextOrder]_vars

-----------------------------------------------------------------------------
(* SpecLive: one execute call on the gateway, with what the event loop     *)
(* and the premise of termination provide: a request_fn call in flight     *)
(* ends (it returns, raises, or wait_for cuts it off), and a backoff sleep *)
(* ends                                                                    *)

LV_execute == GW_execute(1)
LV_request_returns == GW_request_returns(1)
LV_request_raises == GW_request_raises(1)
LV_request_times_out == GW_request_times_out(1)
LV_wake == GW_wake(1)

\* the request_fn call ends, one way or another
LV_request_ends ==
    \/ LV_request_returns
    \/ LV_request_raises
    \/ LV_request_times_out

NextLive ==
    \/ LV_execute
    \/ LV_request_returns
    \/ LV_request_raises
    \/ LV_request_times_out
    \/ LV_wake
    \/ Tick

SpecLive ==
    /\ Init
    /\ [][NextLive]_vars
    /\ WF_vars(LV_request_ends)
    /\ WF_vars(LV_wake)

-----------------------------------------------------------------------------
(* Claims about the CircuitBreaker, checked under SpecCB *)

AllowedTransitions ==
    {<<"closed", "open">>, <<"open", "half_open">>,
     <<"half_open", "closed">>, <<"half_open", "open">>}

\* C7: apart from reset, every change of the breaker's state is one of
\* CLOSED->OPEN, OPEN->HALF_OPEN, HALF_OPEN->CLOSED, HALF_OPEN->OPEN; no call
\* takes the breaker from OPEN directly to CLOSED.
C7_OnlyFourTransitions ==
    (cbObs.op # "reset" /\ cbObs.prev # cb.state)
        => <<cbObs.prev, cb.state>> \in AllowedTransitions

\* C8: the record_failure call that brings the failures since the last
\* record_success (or reset) to the threshold N or beyond leaves the breaker
\* OPEN; a record_failure on a CLOSED breaker that leaves them below N leaves
\* it CLOSED, and a CLOSED breaker below N admits; an OPEN breaker whose last
\* failure is less than the cooldown ago does not admit.
C8_OpensAtThreshold ==
    /\ (cbObs.op = "record_failure" /\ cbObs.streak >= cbCfg.failure_threshold)
          => cb.state = "open"
    /\ (cbObs.op = "record_failure" /\ cbObs.prev = "closed"
            /\ cbObs.streak < cbCfg.failure_threshold)
          => cb.state = "closed"
    /\ (cb.state = "closed" /\ cbObs.streak < cbCfg.failure_threshold)
          => CB_can_execute(cb, cbCfg.cooldown_seconds, now).ret
    /\ (cb.state = "open" /\ now - cbObs.lastFail < cbCfg.cooldown_seconds)
          => ~CB_can_execute(cb, cbCfg.cooldown_seconds, now).ret

\* the threshold is reached by the third failure in a row, and the open
\* breaker refuses
C8_Witness ==
    /\ cbCfg.failure_threshold = 3
    /\ cbObs.op = "record_failure"
    /\ cbObs.streak = 3
    /\ cbObs.prev = "closed"
    /\ cb.state = "open"
    /\ ~CB_can_execute(cb, cbCfg.cooldown_seconds, now).ret

\* C9: a query (state or can_execute) made on an OPEN breaker once the
\* cooldown has elapsed since the last failure finds it HALF_OPEN and
\* admitting, and the passage of time alone changes nothing; from HALF_OPEN
\* record_success gives CLOSED, record_failure gives OPEN with the failure
\* time set to now, and it does not admit while less than a cooldown has
\* passed since.
C9_HalfOpenProbe ==
    /\ (cbObs.op \in {"state", "can_execute"} /\ cbObs.prev = "open"
            /\ now - cbObs.lastFail >= cbCfg.cooldown_seconds)
          => (cb.state = "half_open" /\ cbObs.ret \in {"half_open", "True"})
    /\ (cbObs.op \in {"state", "can_execute"} /\ cbObs.prev = "open"
            /\ now - cbObs.lastFail < cbCfg.cooldown_seconds)
          => (cb.state = "open" /\ cbObs.ret \in {"open", "False"})
    /\ cbObs.op = "tick" => cb.state = cbObs.prev
    /\ (cbObs.op = "record_success" /\ cbObs.prev = "half_open")
          => cb.state = "closed"
    /\ (cbObs.op = "record_failure" /\ cbObs.prev = "half_open")
          => /\ cb.state = "open"
             /\ cb.last_failure_time = now
             /\ ~CB_can_execute(cb, cbCfg.cooldown_seconds, now).ret
    /\ (cb.state = "open" /\ cbObs.probeFail >= 0
            /\ now - cbObs.probeFail < cbCfg.cooldown_seconds)
          => ~CB_can_execute(cb, cbCfg.cooldown_seconds, now).ret

\* a breaker found HALF_OPEN one cooldown after it opened, whose probe then
\* failed, is found HALF_OPEN again one further cooldown later
C9_Witness ==
    /\ cbObs.op = "can_execute"
    /\ cbObs.prev = "open"
    /\ cbObs.probeFail >= 1
    /\ now - cbObs.probeFail = cbCfg.cooldown_seconds
    /\ cbObs.lastFail = cbObs.probeFail
    /\ cb.state = "half_open"
    /\ cbObs.ret = "True"

\* C10: record_success leaves consecutive_failures at 0, and a CLOSED
\* breaker opens only on a record_failure that is at least the N-th since
\* the most recent record_success or reset.
C10_SuccessResetsCount ==
    /\ cbObs.op = "record_success" => cb.consecutive_failures = 0
    /\ cb.state = "closed" => cb.consecutive_failures = cbObs.streak
    /\ (cbObs.prev = "closed" /\ cb.state = "open")
          => (cbObs.op = "record_failure"
                /\ cbObs.streak >= cbCfg.failure_threshold)

\* failures, a success, and then the threshold reached afresh
C10_Witness ==
    /\ cbCfg.failure_threshold = 2
    /\ cbObs.fails = 3
    /\ cbObs.streak = 2
    /\ cbObs.op = "record_failure"
    /\ cbObs.prev = "closed"
    /\ cb.state = "open"

-----------------------------------------------------------------------------
(* Claims about Execute, checked under Spec *)

Started == {c \in CallIds : calls[c].pc # "idle"}

OkEntries(log) == {i \in 1..Len(log) : log[i].outcome = "ok"}

\* the position of provider pid in a chain (0 when it is not in it)
PosIn(chain, pid) ==
    IF \E i \in 1..Len(chain) : providers[chain[i]].provider_id = pid
    THEN CHOOSE i \in 1..Len(chain) : providers[chain[i]].provider_id = pid
    ELSE 0

\* ascending priority, providers of equal priority in the order of the list
InPriorityOrder(s) ==
    \A i, j \in 1..Len(s) : i < j =>
        \/ providers[s[i]].priority < providers[s[j]].priority
        \/ /\ providers[s[i]].priority = providers[s[j]].priority
           /\ s[i] < s[j]

\* the one record a single record_success / record_failure on (p, k) leaves
OneRecord(e) ==
    {[p |-> e.p, k |-> e.k,
      kind |-> IF e.outcome = "ok" THEN "success" ELSE "failure", n |-> 1]}

\* C1: a call is over either with the value of its one successful request_fn
\* invocation or with AllProvidersExhausted; a raise or a timeout of
\* request_fn never ends the call in any other way, and never with a value.
C1_ReturnOrExhausted ==
    \A c \in CallIds :
        LET cl == calls[c]
            n == Len(cl.log)
        IN  /\ cl.pc \in {"idle", "inflight", "sleep", "returned", "raised"}
            /\ cl.pc = "returned" =>
                  /\ OkEntries(cl.log) = {n}
                  /\ cl.result.provider = cl.log[n].p
                  /\ cl.result.api_key =
                        ConfigOf(providers, cl.log[n].p).api_keys[cl.log[n].k + 1]
            /\ cl.pc # "returned" =>
                  /\ OkEntries(cl.log) = {}
                  /\ cl.result.provider = "None"
            /\ (n > 0 /\ cl.log[n].outcome \in {"raise", "timeout"}) =>
                  cl.pc \in {"inflight", "sleep", "raised"}

\* one call returned a value after a raise, another ended exhausted after a
\* timeout
C1_Witness ==
    /\ calls[1].pc = "returned"
    /\ Len(calls[1].log) = 2
    /\ calls[1].log[1].outcome = "raise"
    /\ calls[2].pc = "raised"
    /\ \E i \in 1..Len(calls[2].log) : calls[2].log[i].outcome = "timeout"

\* C2: in a call that returned, the successful invocation left exactly one
\* record_success, on the key it was given, and each invocation that failed
\* before it left exactly one record_failure, on the key it was given.
C2_OneRecordPerAttempt ==
    \A c \in CallIds :
        calls[c].pc = "returned" =>
            /\ \A i \in 1..Len(calls[c].log) :
                  calls[c].log[i].rec = OneRecord(calls[c].log[i])
            /\ Cardinality(OkEntries(calls[c].log)) = 1

\* a call that returned on its second key after a timeout on the first
C2_Witness ==
    \E c \in CallIds :
        /\ calls[c].pc = "returned"
        /\ Len(calls[c].log) = 2
        /\ calls[c].log[1].outcome = "timeout"
        /\ calls[c].log[1].k = 0
        /\ calls[c].log[2].k = 1

\* C3: the chain of a call is in ascending priority behind a preferred
\* provider moved to its front and names no provider twice; the attempts of
\* the call follow the chain, so that all attempts on one provider come
\* together and before those on the providers behind it; the attempt in
\* flight is on a provider no earlier than any already tried.
C3_ChainOrder ==
    \A c \in Started :
        LET cl == calls[c]
            ch == cl.chain
            moved == cl.preferred # "None" /\ PosIn(ch, cl.preferred) # 0
        IN  /\ InPriorityOrder(IF moved THEN Tail(ch) ELSE ch)
            /\ moved => providers[ch[1]].provider_id = cl.preferred
            /\ \A i, j \in 1..Len(ch) :
                  i # j => providers[ch[i]].provider_id # providers[ch[j]].provider_id
            /\ \A i \in 1..Len(cl.log) : PosIn(ch, cl.log[i].p) # 0
            /\ \A i, j \in 1..Len(cl.log) :
                  i < j => PosIn(ch, cl.log[i].p) <= PosIn(ch, cl.log[j].p)
            /\ cl.pc \in {"inflight", "sleep"} =>
                  \A i \in 1..Len(cl.log) : PosIn(ch, cl.log[i].p) <= cl.pos

\* three providers tried one after the other, the preferred one first
C3_Witness ==
    \E c \in CallIds :
        /\ calls[c].preferred = "gamma"
        /\ Len(calls[c].log) = 3
        /\ calls[c].log[1].p = "gamma"
        /\ calls[c].log[2].p = "beta"
        /\ calls[c].log[3].p = "alpha"

\* C4: when the attempts on the providers before p have all failed and the
\* first attempt on p succeeds, the call returns p's result; a timeout
\* leaves one record_failure on the selected key, and after a failed attempt
\* the call goes on: it gives up only behind the last provider of the chain.
C4_FailoverToNext ==
    \A c \in CallIds :
        LET cl == calls[c]
            n == Len(cl.log)
        IN  /\ (/\ n > 0
                /\ cl.log[n].outcome = "ok"
                /\ \A i \in 1..(n - 1) :
                      /\ cl.log[i].outcome \in {"raise", "timeout"}
                      /\ cl.log[i].p # cl.log[n].p)
                  => (cl.pc = "returned" /\ cl.result.provider = cl.log[n].p)
            /\ \A i \in 1..n :
                  cl.log[i].outcome = "timeout" =>
                      cl.log[i].rec = OneRecord(cl.log[i])
            /\ (n > 0 /\ cl.log[n].outcome \in {"raise", "timeout"}) =>
                  /\ cl.pc \in {"inflight", "sleep", "raised"}
                  /\ cl.pc = "raised" => cl.pos = Len(cl.chain)
                  /\ cl.pc = "inflight" =>
                        PosIn(cl.chain, cl.log[n].p) <= cl.pos

\* alpha timed out and the call returned beta's result
C4_Witness ==
    \E c \in CallIds :
        /\ calls[c].pc = "returned"
        /\ Len(calls[c].log) = 2
        /\ calls[c].log[1].p = "alpha"
        /\ calls[c].log[1].outcome = "timeout"
        /\ calls[c].log[2].p = "beta"
        /\ calls[c].result.provider = "beta"

RECURSIVE SumFailures(_, _)
SumFailures(k, n) ==
    IF n = 0 THEN 0
    ELSE k.keys[n - 1].health_tracker.total_failures + SumFailures(k, n - 1)

\* cumulative totalFailures of a provider, over its keys
TotalFailures(pid) == SumFailures(km[pid], KeyCount(km[pid]))

\* the first call on a new gateway whose providers all have a non-blank key
\* has ended, every request_fn invocation having raised
FreshAllRaised ==
    /\ calls[1].pc = "raised"
    /\ \A c \in CallIds : c # 1 => calls[c].pc = "idle"
    /\ \A i \in 1..Len(providers) : HasKeys(providers[i])
    /\ \A i \in 1..Len(calls[1].log) : calls[1].log[i].outcome = "raise"

\* errors has one entry per configured provider, and each provider has
\* totalFailures = min(maxRetries + 1, max(len(apiKeys), 1))
OneEntryAndMaxAttemptsEach ==
    /\ {e[1] : e \in calls[1].errors} = ProviderIds(providers)
    /\ Cardinality(calls[1].errors) = Len(providers)
    /\ \A i \in 1..Len(providers) :
          TotalFailures(providers[i].provider_id)
              = Min2(providers[i].max_retries + 1,
                     Max2(Len(providers[i].api_keys), 1))

\* C5 as stated: on a fresh gateway whose providers all have a non-blank
\* key, when every request_fn invocation raises, errors has one entry per
\* provider and every provider's totalFailures equals its maxAttempts.
C5_AsStated == FreshAllRaised => OneEntryAndMaxAttemptsEach

\* estimated_tokens is within the tpm_limit of every provider that has one
EstWithinTpm ==
    \A i \in 1..Len(providers) :
        providers[i].tpm_limit = 0 \/ calls[1].est <= providers[i].tpm_limit

\* C5 amended: the same, for a call whose estimated_tokens no provider's
\* tpm_limit rejects.
C5_ExhaustedWhenAdmitted ==
    (FreshAllRaised /\ EstWithinTpm) => OneEntryAndMaxAttemptsEach

\* three providers, each tried maxAttempts times, all raising
C5_Witness ==
    /\ FreshAllRaised
    /\ EstWithinTpm
    /\ Len(providers) = 3
    /\ Len(calls[1].log) = 3
    /\ OneEntryAndMaxAttemptsEach

\* C6: a preferred provider that is in the fallback chain heads the chain
\* and the others keep their priority order behind it; it is the first
\* provider the call tries, so that request_fn is invoked for it before any
\* other unless no key of it was usable, and when that first attempt
\* succeeds no other provider is invoked; a preferred provider that is not
\* in the chain leaves the chain in priority order.
C6_PreferredFirst ==
    \A c \in Started :
        LET cl == calls[c]
            ch == cl.chain
            usable == {i \in 1..Len(providers) : HasKeys(providers[i])}
            inChain == \E i \in usable : providers[i].provider_id = cl.preferred
        IN  /\ {ch[i] : i \in 1..Len(ch)} = usable
            /\ Len(ch) = Cardinality(usable)
            /\ inChain =>
                  /\ providers[ch[1]].provider_id = cl.preferred
                  /\ InPriorityOrder(Tail(ch))
                  /\ cl.attempted # {} => cl.preferred \in cl.attempted
                  /\ cl.log # <<>> =>
                        \/ cl.log[1].p = cl.preferred
                        \/ <<cl.preferred, "no_usable_keys">> \in cl.errors
                  /\ (cl.log # <<>> /\ cl.log[1].p = cl.preferred
                          /\ cl.log[1].outcome = "ok") =>
                        (Len(cl.log) = 1 /\ cl.pc = "returned"
                            /\ cl.result.provider = cl.preferred)
            /\ ~inChain => InPriorityOrder(ch)

\* gamma, of the lowest priority, preferred: it alone was invoked
C6_Witness ==
    \E c \in CallIds :
        /\ calls[c].preferred = "gamma"
        /\ Len(calls[c].chain) = 3
        /\ providers[calls[c].chain[2]].provider_id = "beta"
        /\ providers[calls[c].chain[3]].provider_id = "alpha"
        /\ calls[c].pc = "returned"
        /\ Len(calls[c].log) = 1
        /\ calls[c].result.provider = "gamma"

-----------------------------------------------------------------------------
(* Claims about the QuotaManager, checked under SpecQM *)

\* the usages of hist whose timestamp is not below the cutoff
RECURSIVE CountFrom(_, _)
CountFrom(hist, cutoff) ==
    IF hist = <<>> THEN 0
    ELSE (IF Head(hist).timestamp >= cutoff THEN 1 ELSE 0)
            + CountFrom(Tail(hist), cutoff)

\* and the sum of their tokens
RECURSIVE TokensFrom(_, _)
TokensFrom(hist, cutoff) ==
    IF hist = <<>> THEN 0
    ELSE (IF Head(hist).timestamp >= cutoff THEN Head(hist).tokens ELSE 0)
            + TokensFrom(Tail(hist), cutoff)

\* C11: can_accept(est) is true exactly when (rpm_limit = 0 or R < rpm_limit)
\* and (tpm_limit = 0 or T + est <= tpm_limit), R and T being the number and
\* the token sum of the usages recorded since the last reset that are not
\* older than the window; and with rpm_limit = L > 0 and at least L usages
\* recorded less than a window ago, can_accept(0) is false.
C11_AdmissionRule ==
    qmObs.op = "can_accept" =>
        LET R == CountFrom(qmObs.hist, now - QuotaWindow)
            T == TokensFrom(qmObs.hist, now - QuotaWindow)
            L == qmCfg.rpm_limit
        IN  /\ (qmObs.ret = "True") <=>
                  (/\ (L = 0 \/ R < L)
                   /\ (qmCfg.tpm_limit = 0 \/ T + qmObs.est <= qmCfg.tpm_limit))
            /\ (L > 0 /\ qmObs.est = 0
                    /\ CountFrom(qmObs.hist, now - QuotaWindow + 1) >= L)
                  => qmObs.ret = "False"

\* three usages, the first of them older than the window: the other two
\* fill rpm_limit = 2 and can_accept(0) is false
C11_Witness ==
    /\ qmObs.op = "can_accept"
    /\ qmObs.est = 0
    /\ qmCfg.rpm_limit = 2
    /\ Len(qmObs.hist) = 3
    /\ qmObs.hist[1].timestamp < now - QuotaWindow
    /\ CountFrom(qmObs.hist, now - QuotaWindow + 1) = 2
    /\ qmObs.ret = "False"

\* C12 as stated: a can_accept(est) made windowSeconds or more after a
\* can_accept(est) that a full window refused, with no usage recorded and no
\* reset in between, is true.
C12_AsStated ==
    (/\ qmObs.op = "can_accept"
     /\ qmObs.rej[qmObs.est] >= 0
     /\ now - qmObs.rej[qmObs.est] >= QuotaWindow)
        => qmObs.ret = "True"

\* C12 amended: the same, made more than windowSeconds after the refusal.
C12_ReplenishesAfterWindow ==
    (/\ qmObs.op = "can_accept"
     /\ qmObs.rej[qmObs.est] >= 0
     /\ now - qmObs.rej[qmObs.est] > QuotaWindow)
        => qmObs.ret = "True"

\* refused at time 0 with usages recorded, admitted two windows later
C12_Witness ==
    /\ qmObs.op = "can_accept"
    /\ qmObs.hist # <<>>
    /\ qmObs.rej[qmObs.est] = 0
    /\ now = 2 * QuotaWindow
    /\ qmObs.ret = "True"

-----------------------------------------------------------------------------
(* Claims about the sliding windows, checked under SpecWin *)

\* the samples of hist whose timestamp is not below the cutoff
SamplesFrom(hist, cutoff) ==
    SelectSeq(hist, LAMBDA x : x.timestamp >= cutoff)

\* how many of the samples put the latency v into the sorted list
RECURSIVE Inserted(_, _)
Inserted(ss, v) ==
    IF ss = <<>> THEN 0
    ELSE (IF Head(ss).latency_ms = v /\ (Head(ss).success \/ v > 0)
          THEN 1 ELSE 0) + Inserted(Tail(ss), v)

Occurrences(ls, v) == Cardinality({i \in 1..Len(ls) : ls[i] = v})

\* a read at time now is decided by the samples and usages recorded at or
\* after the cutoff, and by no older one: the status and the success rate
\* are those of these samples, every latency behind the percentiles is the
\* latency of one of them, and the request and token counts are those of
\* these usages
ReadsCountFrom(cutoff) ==
    LET ss == SamplesFrom(obs.hist, cutoff)
    IN  /\ obs.op = "status" => obs.ret = StatusOf(ss)
        /\ obs.op = "health" =>
              /\ obs.ret.status = StatusOf(ss)
              /\ obs.ret.success_rate = RateOf(ss)
              /\ \A v \in Latencies :
                    Occurrences(ht.latencies, v) <= Inserted(ss, v)
              /\ \A f \in {"p50", "p95", "p99"} :
                    \/ obs.ret[f] = 0
                    \/ Inserted(ss, obs.ret[f]) > 0
        /\ qmObs.op = "requests_in_window" =>
              qmObs.ret = CountFrom(qmObs.hist, cutoff)
        /\ qmObs.op = "tokens_in_window" =>
              qmObs.ret = TokensFrom(qmObs.hist, cutoff)

\* C13 as stated: a sample or usage with now - timestamp >= W, one of age
\* exactly W included, does not contribute to the status, the success rate,
\* the percentiles or the request and token counts of a read.
C13_AsStated == ReadsCountFrom(now - HealthWindow + 1)

\* C13 amended: a sample or usage with now - timestamp > W does not
\* contribute to them; one of age exactly W still does.
C13_OlderThanWindowIgnored == ReadsCountFrom(now - HealthWindow)

\* a failure older than the window and a success of age exactly the
\* window: the snapshot shows the success alone
C13_Witness ==
    /\ obs.op = "health"
    /\ Len(obs.hist) = 2
    /\ ~obs.hist[1].success /\ obs.hist[1].timestamp = now - 2 * HealthWindow
    /\ obs.hist[2].success /\ obs.hist[2].timestamp = now - HealthWindow
    /\ obs.hist[2].latency_ms = TickMs
    /\ obs.ret.status = "healthy"
    /\ obs.ret.success_rate = 10000
    /\ obs.ret.p50 = TickMs
    /\ qmObs.op = "requests_in_window"
    /\ Len(qmObs.hist) = 1
    /\ qmObs.hist[1].timestamp = now - QuotaWindow
    /\ qmObs.ret = 1

\* the samples of ss that are in the window at time t
InWindow(ss, t) == SelectSeq(ss, LAMBDA s : s.timestamp >= t - HealthWindow)

\* the latencies of the samples of ss, sorted, those of the failures
\* recorded with latency 0 left out
RECURSIVE LatenciesOf(_)
LatenciesOf(ss) ==
    IF ss = <<>> THEN <<>>
    ELSE IF ~Head(ss).success /\ Head(ss).latency_ms = 0
    THEN LatenciesOf(Tail(ss))
    ELSE Insort(LatenciesOf(Tail(ss)), Head(ss).latency_ms)

\* C30: after every record_success, record_failure and read of a tracker,
\* the sorted latencies the percentiles are taken from are the latencies of
\* the samples in the window, failures recorded with latency 0 excluded:
\* an evicted sample takes its own latency with it and no other.
C30_LatenciesMatchWindow ==
    obs.op \in {"record_success", "record_failure", "status", "health"} =>
        ht.latencies = LatenciesOf(InWindow(ht.samples, now))

-----------------------------------------------------------------------------
(* Claims about health snapshots taken among threads, checked under SpecHT *)

\* C14: every snapshot health returns has total_requests = total_successes
\* + total_failures, also when other threads record on the tracker while the
\* snapshot is taken.
C14_TotalsAddUp ==
    obs.op = "health" =>
        obs.ret.total_requests = obs.ret.total_successes + obs.ret.total_failures

-----------------------------------------------------------------------------
(* Claims about the KeyManager, checked under SpecKM *)

RECURSIVE SumOver(_, _)
SumOver(f, S) ==
    IF S = {} THEN 0
    ELSE LET x == CHOOSE y \in S : TRUE IN f[x] + SumOver(f, S \ {x})

\* C15: while every key stays usable and no failure is recorded, over any
\* M >= k select_key calls on a manager of k keys, whoever the callers are,
\* each key is returned floor(M/k) or ceil(M/k) times.
C15_RoundRobinFair ==
    LET k == Cardinality(DOMAIN obs.counts)
        M == SumOver(obs.counts, DOMAIN obs.counts)
    IN  (obs.clean /\ M >= k) =>
            \A i \in DOMAIN obs.counts :
                obs.counts[i] \in {M \div k, (M + k - 1) \div k}

\* four fair selections on three keys, with a success reported in between
C15_Witness ==
    /\ obs.op = "select_key" /\ obs.clean
    /\ Cardinality(DOMAIN obs.counts) = 3
    /\ SumOver(obs.counts, DOMAIN obs.counts) = 4
    /\ SumOver(obs.out, DOMAIN obs.out) < 4

\* the steps of the scan, counted from the cursor, at which the key admits
AdmittingSteps(k, cfg, est, t) ==
    {i \in 0..(KeyCount(k) - 1) :
        KeyAdmits(k.keys[(k.rr_index + i) % KeyCount(k)], cfg, est, t)}

-----------------------------------------------------------------------------
(* Claims about the chain and the errors of execute, checked under Spec *)

\* C16: the fallback chain of an execute call holds no provider whose
\* any_healthy is False when the chain is built (every key's circuit OPEN,
\* cooldown not elapsed); such a provider is not attempted and has no entry
\* in the errors map.
C16_ChainSkipsUnhealthy ==
    \A c \in CallIds :
        \A pid \in calls[c].unhealthy :
            /\ \A i \in 1..Len(calls[c].chain) :
                   providers[calls[c].chain[i]].provider_id # pid
            /\ pid \notin calls[c].attempted
            /\ \A e \in calls[c].errors : e[1] # pid

\* the request_fn calls a call made on a provider
AttemptsOn(cl, pid) == {i \in 1..Len(cl.log) : cl.log[i].p = pid}

\* the providers of a call that ended in AllProvidersExhaustedError whose
\* attempts were all made and all failed in request_fn
FailedByRaising(cl) ==
    {pid \in cl.attempted :
        /\ cl.pc = "raised"
        /\ AttemptsOn(cl, pid) # {}
        /\ <<pid, "no_usable_keys">> \notin cl.errors}

\* the error_msg of the last attempt made on a provider
LastCause(cl, pid) ==
    cl.log[CHOOSE i \in AttemptsOn(cl, pid) :
              \A j \in AttemptsOn(cl, pid) : j <= i].msg

-----------------------------------------------------------------------------
(* Claims about providers without keys, checked under SpecRouter *)

\* api_keys is empty or holds blank strings only
Keyless(cfg) ==
    \A i \in 1..Len(cfg.api_keys) : cfg.api_keys[i] \in {"", " ", "  "}

\* C17: a provider whose api_keys is empty or all blank is never returned by
\* select_provider, whatever the strategy, is in no fallback chain, and
\* request_fn is never called with its config, also when it is the
\* preferred provider of the call.
C17_KeylessUnreachable ==
    /\ (obs.op = "select_provider" /\ obs.ret # 0) => ~Keyless(providers[obs.ret])
    /\ \A i \in 1..Len(obs.chain) : ~Keyless(providers[obs.chain[i]])
    /\ \A c \in CallIds :
          /\ \A i \in 1..Len(calls[c].chain) :
                 ~Keyless(providers[calls[c].chain[i]])
          /\ \A i \in 1..Len(calls[c].log) :
                 ~Keyless(ConfigOf(providers, calls[c].log[i].p))
          /\ calls[c].pc = "inflight" => ~Keyless(CurCfg(providers, calls[c]))

\* a call that preferred the keyless gamma got its result elsewhere, and
\* the round-robin router has been asked three times
C17_Witness ==
    /\ Keyless(ConfigOf(providers, "gamma"))
    /\ calls[1].preferred = "gamma" /\ calls[1].pc = "returned"
    /\ router.strategy = "round_robin" /\ router.rr_index = 3
    /\ obs.op = "select_provider" /\ obs.ret # 0

-----------------------------------------------------------------------------
(* Claims about the monitoring and admin calls, checked under SpecAdmin *)

\* C18: reset_provider(p) leaves every key of p with a CLOSED circuit, no
\* consecutive failures and an empty quota window.
C18_ResetRestores ==
    (obs.op = "reset_provider" /\ obs.known) =>
        \A i \in DOMAIN obs.after.keys :
            /\ obs.after.keys[i].circuit_breaker.state = "closed"
            /\ obs.after.keys[i].circuit_breaker.consecutive_failures = 0
            /\ obs.after.keys[i].quota_manager.records = <<>>

\* s is what is left of r when heads older than the window at t are dropped
DroppedExpired(r, s, t) ==
    /\ Len(s) <= Len(r)
    /\ s = SubSeq(r, Len(r) - Len(s) + 1, Len(r))
    /\ \A j \in 1..(Len(r) - Len(s)) : r[j].timestamp < t - HealthWindow

\* C19 as stated: get_health is a pure read. Two calls in a row with no
\* record_success, record_failure, select_key or reset between them return
\* equal snapshots, and a call changes no circuit state, quota record, health
\* sample or round-robin index.
C19_AsStated ==
    (obs.op = "get_health" /\ obs.known) =>
        /\ obs.chained => obs.ret = obs.prevRet
        /\ obs.after.rr_index = obs.before.rr_index
        /\ \A i \in DOMAIN obs.before.keys :
              /\ obs.after.keys[i].circuit_breaker.state
                     = obs.before.keys[i].circuit_breaker.state
              /\ obs.after.keys[i].quota_manager = obs.before.keys[i].quota_manager
              /\ obs.after.keys[i].health_tracker.samples
                     = obs.before.keys[i].health_tracker.samples

\* C19, amended: two get_health calls in a row at one clock reading, with
\* nothing recorded, selected or reset between them, return equal snapshots;
\* a call changes no quota record, round-robin index or counter, it drops
\* only health samples that have left the window, and the only circuit
\* change it makes is OPEN to HALF_OPEN once the cooldown has elapsed.
C19_ReadsLazily ==
    (obs.op = "get_health" /\ obs.known) =>
        /\ (obs.chained /\ obs.prevT = obs.t) => obs.ret = obs.prevRet
        /\ obs.after.rr_index = obs.before.rr_index
        /\ \A i \in DOMAIN obs.before.keys :
              LET b == obs.before.keys[i]
                  a == obs.after.keys[i]
                  cool == ConfigOf(providers, obs.pid).cb_cooldown_s
              IN  /\ a.quota_manager = b.quota_manager
                  /\ a.api_key = b.api_key /\ a.index = b.index
                  /\ \A f \in {"total_requests", "total_successes",
                                "total_failures", "consecutive_failures",
                                "last_error", "last_error_time"} :
                         a.health_tracker[f] = b.health_tracker[f]
                  /\ DroppedExpired(b.health_tracker.samples,
                                    a.health_tracker.samples, obs.t)
                  /\ a.circuit_breaker.consecutive_failures
                         = b.circuit_breaker.consecutive_failures
                  /\ a.circuit_breaker.last_failure_time
                         = b.circuit_breaker.last_failure_time
                  /\ \/ a.circuit_breaker.state = b.circuit_breaker.state
                     \/ /\ b.circuit_breaker.state = "open"
                        /\ a.circuit_breaker.state = "half_open"
                        /\ obs.t - b.circuit_breaker.last_failure_time >= cool

\* the second of two get_health calls in a row at one clock reading, on a
\* provider that has answered requests and has a key on probation
C19_Witness ==
    /\ obs.op = "get_health" /\ obs.known
    /\ obs.chained /\ obs.prevT = obs.t
    /\ obs.ret.total_requests > 0
    /\ \E i \in DOMAIN obs.after.keys :
          obs.after.keys[i].circuit_breaker.state = "half_open"

\* the sum of one cumulative counter over the trackers of the keys in S
RECURSIVE SumCounter(_, _, _)
SumCounter(keys, field, S) ==
    IF S = {} THEN 0
    ELSE LET i == CHOOSE j \in S : TRUE
         IN  keys[i].health_tracker[field] + SumCounter(keys, field, S \ {i})

\* the keys whose circuit admits execution at time t
Admitting(keys, cfg, t) ==
    {i \in DOMAIN keys :
        CB_can_execute(keys[i].circuit_breaker, cfg.cb_cooldown_s, t).ret}

\* C29: get_health returns None for a provider the gateway does not know;
\* for one it knows, the three totals are the sums of the cumulative
\* counters of its keys, and the status is healthy when the circuit of
\* every key admits execution, degraded when some do and some do not, and
\* unhealthy when none does.
C29_HealthAggregate ==
    obs.op = "get_health" =>
        IF ~obs.known THEN obs.ret = "None"
        ELSE LET keys == obs.before.keys
                 adm == Admitting(keys, ConfigOf(providers, obs.pid), obs.t)
             IN  /\ obs.ret.total_requests
                      = SumCounter(keys, "total_requests", DOMAIN keys)
                 /\ obs.ret.total_successes
                      = SumCounter(keys, "total_successes", DOMAIN keys)
                 /\ obs.ret.total_failures
                      = SumCounter(keys, "total_failures", DOMAIN keys)
                 /\ obs.ret.status =
                      IF adm = DOMAIN keys THEN "healthy"
                      ELSE IF adm # {} THEN "degraded"
                      ELSE "unhealthy"

\* a degraded snapshot that adds a failure on one key to a success on the
\* other
C29_Witness ==
    /\ obs.op = "get_health" /\ obs.known
    /\ obs.ret.status = "degraded"
    /\ obs.ret.total_requests = 2
    /\ obs.ret.total_failures = 1
    /\ \A i \in DOMAIN obs.before.keys :
          obs.before.keys[i].health_tracker.total_requests = 1

-----------------------------------------------------------------------------
(* Claims about the locks, checked under SpecLocks *)

\* C21 as stated: no thread ever holds two component locks at a time.
C21_AsStated ==
    \A t \in Threads : Cardinality(obs.th[t].held) <= 1

\* C21, amended: a thread holds two locks only inside select_key, where it
\* holds the KeyManager's lock and, one at a time, the lock of a breaker or
\* of a quota manager of one of its keys; it never holds three, and holds
\* one lock at most everywhere else.
C21_NestsOnlyInSelectKey ==
    \A t \in Threads :
        LET held == obs.th[t].held
        IN  /\ Cardinality(held) <= 2
            /\ Cardinality(held) = 2 =>
                   /\ obs.th[t].op = "select_key"
                   /\ KmLock \in held
                   /\ \E l \in held : l[1] \in {"cb", "qm"}
            /\ obs.th[t].op # "select_key" => Cardinality(held) <= 1
            /\ obs.th[t].op = "idle" => held = {}

\* a thread is inside select_key with the manager's lock and the quota
\* lock of the second key, while another thread holds a tracker's lock
C21_Witness ==
    \E t, u \in Threads :
        /\ obs.th[t].held = {KmLock, QmLock(1)}
        /\ \E i \in 0..1 : HtLock(i) \in obs.th[u].held

-----------------------------------------------------------------------------
(* Claims about deadlocks, checked under SpecLocks *)

\* thread t is about to enter a block
Entering(t) ==
    /\ obs.th[t].todo # <<>>
    /\ Head(obs.th[t].todo).kind = "acq"

\* thread t is about to enter a block whose lock is taken
Blocked(t) ==
    /\ Entering(t)
    /\ \E u \in Threads : Head(obs.th[t].todo).lock \in obs.th[u].held

\* C38: no interleaving of select_key, record_success, record_failure,
\* get_health and round-robin selections by several threads deadlocks: as
\* long as a thread is inside a method some thread can take its next step;
\* the KeyManager's lock is taken with no lock held and a component's lock
\* with at most the KeyManager's lock held, never the other way round; and
\* no thread enters a block whose lock it holds itself.
C38_NoDeadlock ==
    /\ (\E t \in Threads : obs.th[t].todo # <<>>) =>
          \E t \in Threads : obs.th[t].todo # <<>> /\ ~Blocked(t)
    /\ \A t \in Threads :
          Entering(t) =>
             LET lock == Head(obs.th[t].todo).lock
                 held == obs.th[t].held
             IN  /\ lock \notin held
                 /\ lock = KmLock => held = {}
                 /\ lock # KmLock => held \subseteq {KmLock}

\* a thread inside select_key holds the manager's lock and the lock of a
\* breaker, and the other thread waits for that breaker's lock
C38_Witness ==
    \E t, u \in Threads :
        /\ obs.th[t].held = {KmLock, CbLock(0)}
        /\ Entering(u)
        /\ Head(obs.th[u].todo).lock = CbLock(0)
        /\ obs.th[u].op = "record_failure"

-----------------------------------------------------------------------------
(* Claims about the attempt loop of the gateway, checked under Spec *)

\* the request_fn invocations of a call on a provider: those that ended and
\* the one in flight
InvocationsOn(cl, pid) ==
    Cardinality(AttemptsOn(cl, pid))
      + (IF cl.pc = "inflight"
            /\ providers[cl.chain[cl.pos]].provider_id = pid
         THEN 1 ELSE 0)

\* C22: within one execute call, request_fn is invoked on a provider at most
\* min(max_retries + 1, max(len(api_keys), 1)) times, whatever the
\* configuration and however the invocations fail.
C22_AttemptsBounded ==
    \A c \in CallIds : \A i \in 1..Len(providers) :
        InvocationsOn(calls[c], providers[i].provider_id)
          <= Min2(providers[i].max_retries + 1,
                  Max2(Len(providers[i].api_keys), 1))

\* a call used both attempts alpha allows, both failed, and went on to a
\* third invocation, on beta
C22_Witness ==
    \E c \in CallIds :
        /\ providers = TwoProviders
        /\ Cardinality(AttemptsOn(calls[c], "alpha")) = 2
        /\ <<"alpha", "exhausted_attempts">> \in calls[c].errors
        /\ InvocationsOn(calls[c], "beta") = 1

-----------------------------------------------------------------------------
(* Claims about construction, checked under SpecNew *)

\* C23: constructing a gateway from any list of configurations, with any
\* strategy, raises nothing and leaves one KeyManager per provider_id and a
\* router of the strategy given.
C23_AsStated ==
    obs.op = "gateway" =>
        /\ obs.raised = "None"
        /\ DOMAIN km = ProviderIds(providers)
        /\ router = Router_init(obs.strategy)

-----------------------------------------------------------------------------
(* Claims about selections that find no key, checked under Spec *)

\* the failures on record for the keys of a provider
FailuresOf(kms, pid) ==
    [i \in DOMAIN kms[pid].keys |->
        <<kms[pid].keys[i].health_tracker.total_failures,
          kms[pid].keys[i].circuit_breaker.consecutive_failures>>]

NoUsableKeys(cl, pid) == <<pid, "no_usable_keys">> \in cl.errors

\* the provider a call waits on, in request_fn or in a backoff sleep
WaitsOn(cl, pid) ==
    /\ cl.pc \in {"inflight", "sleep"}
    /\ providers[cl.chain[cl.pos]].provider_id = pid

\* C25: the step of a call in which select_key returns None for a provider
\* sets errors[provider] = "no_usable_keys", invokes request_fn on it not
\* once and records no failure on any of its keys; from then on the call
\* makes no attempt on that provider, and it goes on down the chain: it
\* raises only behind the last provider.
C25_NoUsableKeys ==
    [][\A c \in CallIds : \A pid \in ProviderIds(providers) :
          LET cl == calls[c]
              cl2 == calls'[c]
          IN  /\ (~NoUsableKeys(cl, pid) /\ NoUsableKeys(cl2, pid)) =>
                    /\ AttemptsOn(cl2, pid) = AttemptsOn(cl, pid)
                    /\ FailuresOf(km', pid) = FailuresOf(km, pid)
              /\ NoUsableKeys(cl, pid) =>
                    /\ NoUsableKeys(cl2, pid)
                    /\ AttemptsOn(cl2, pid) = AttemptsOn(cl, pid)
              /\ NoUsableKeys(cl2, pid) =>
                    /\ pid \in cl2.attempted
                    /\ ~WaitsOn(cl2, pid)
                    /\ cl2.pc \in {"inflight", "sleep", "returned", "raised"}
                    /\ cl2.pc = "raised" => cl2.pos = Len(cl2.chain)
                    /\ cl2.pc = "returned" => cl2.result.provider # pid]_vars

\* beta had no usable key, nothing was sent to it, and the call returned
\* the result of a provider behind it
C25_Witness ==
    \E c \in CallIds :
        /\ NoUsableKeys(calls[c], "beta")
        /\ AttemptsOn(calls[c], "beta") = {}
        /\ calls[c].pc = "returned"
        /\ PosIn(calls[c].chain, calls[c].result.provider)
             > PosIn(calls[c].chain, "beta")

-----------------------------------------------------------------------------
(* Claims about the backoff, checked under SpecBackoff *)

\* max_attempts of the provider a call is on, from its configuration
AttemptsAllowed(cl) ==
    LET cfg == providers[cl.chain[cl.pos]]
    IN  Min2(cfg.max_retries + 1, Max2(Len(cfg.api_keys), 1))

\* the step logged the end of an invocation of the call
Logged(cl, cl2, outcomes) ==
    /\ Len(cl2.log) = Len(cl.log) + 1
    /\ cl2.log[Len(cl2.log)].outcome \in outcomes

\* C26: a call starts to sleep only straight after a failed attempt a on a
\* provider with a < max_attempts - 1, and then for
\* min(backoff_base * 2^a, backoff_max), which never exceeds backoff_max;
\* after every such failure it does sleep; it does not sleep after a
\* success, after the last attempt on a provider or after a selection that
\* found no key.
C26_Backoff ==
    [][\A c \in CallIds :
          LET cl == calls[c]
              cl2 == calls'[c]
          IN  /\ (cl2.pc = "sleep" /\ cl.pc # "sleep") =>
                    /\ cl.pc = "inflight"
                    /\ Logged(cl, cl2, {"raise", "timeout"})
                    /\ cl2.pos = cl.pos /\ cl2.attempt = cl.attempt
                    /\ cl.attempt < AttemptsAllowed(cl) - 1
                    /\ cl2.delay = Min2(BackoffBaseMs * Pow2(cl.attempt),
                                        BackoffMaxMs)
                    /\ cl2.delay <= BackoffMaxMs
              /\ (cl.pc = "inflight" /\ Logged(cl, cl2, {"raise", "timeout"})) =>
                    /\ cl.attempt
                         = Cardinality(AttemptsOn(cl, CurCfg(providers, cl).provider_id))
                    /\ (cl2.pc = "sleep") <=> (cl.attempt < AttemptsAllowed(cl) - 1)
              /\ (cl.pc = "inflight" /\ Logged(cl, cl2, {"ok"})) =>
                    cl2.pc = "returned"
              /\ (cl.pc = "sleep" /\ cl2.pc # "sleep") =>
                    /\ cl2.attempt = cl.attempt + 1 \/ cl2.pc \in {"raised"}
                    /\ cl2.pc \in {"inflight", "raised"}]_vars

\* the sixth failed attempt in a row: the delay is 8 s, where doubling
\* would give 16 s
C26_Witness ==
    \E c \in CallIds :
        /\ calls[c].pc = "sleep"
        /\ calls[c].attempt = 5
        /\ calls[c].delay = BackoffMaxMs
        /\ BackoffBaseMs * Pow2(calls[c].attempt) > BackoffMaxMs

-----------------------------------------------------------------------------
(* Claims about the frame of the recording calls, checked under SpecFrame *)

\* every key but key i of provider p is as it was, and so is every cursor
OthersUnchanged(p, i) ==
    /\ \A q \in DOMAIN km :
          /\ km'[q].rr_index = km[q].rr_index
          /\ DOMAIN km'[q].keys = DOMAIN km[q].keys
          /\ \A j \in DOMAIN km[q].keys :
                (q # p \/ j # i) => km'[q].keys[j] = km[q].keys[j]
    /\ DOMAIN km' = DOMAIN km

\* C27: record_failure(i, ...) on a provider changes the circuit breaker and
\* the health tracker of its key i and nothing else: not key i's quota
\* records, no other key of the provider, no key of another provider;
\* record_success(i, ...) changes key i alone.
C27_RecordFrame ==
    [][/\ (obs'.op = "record_failure" /\ obs'.n = obs.n + 1) =>
             /\ OthersUnchanged(obs'.pid, obs'.key)
             /\ obs'.key \in DOMAIN km[obs'.pid].keys =>
                   /\ km'[obs'.pid].keys[obs'.key].quota_manager
                        = km[obs'.pid].keys[obs'.key].quota_manager
                   /\ km'[obs'.pid].keys[obs'.key].api_key
                        = km[obs'.pid].keys[obs'.key].api_key
       /\ (obs'.op = "record_success" /\ obs'.n = obs.n + 1) =>
             /\ OthersUnchanged(obs'.pid, obs'.key)
             /\ obs'.key \in DOMAIN km[obs'.pid].keys =>
                   km'[obs'.pid].keys[obs'.key].api_key
                     = km[obs'.pid].keys[obs'.key].api_key]_vars

\* a failure was recorded on key 0 of alpha, whose circuit opened, while
\* key 1 of alpha and the key of beta carry a success each
C27_Witness ==
    /\ obs.op = "record_failure" /\ obs.pid = "alpha" /\ obs.key = 0
    /\ km["alpha"].keys[0].circuit_breaker.state = "open"
    /\ km["alpha"].keys[0].health_tracker.total_failures = 1
    /\ km["alpha"].keys[1].health_tracker.total_successes = 1
    /\ km["beta"].keys[0].health_tracker.total_successes = 1

-----------------------------------------------------------------------------
(* Claims about the HALF_OPEN probe, checked under Spec *)

\* the calls in flight on key i of a provider that were admitted by its
\* HALF_OPEN circuit: the circuit has been open or half-open since its last
\* failure, and the call got the key once the cooldown had passed
ProbesInFlight(pid, i) ==
    LET c0 == km[pid].keys[i].circuit_breaker
        cfg == ConfigOf(providers, pid)
    IN  {c \in DOMAIN calls :
            /\ calls[c].pc = "inflight"
            /\ CurCfg(providers, calls[c]).provider_id = pid
            /\ calls[c].key = i
            /\ c0.state = "half_open"
            /\ calls[c].start >= c0.last_failure_time + cfg.cb_cooldown_s}

\* C28: while the circuit of a key is HALF_OPEN, at most one request_fn
\* attempt admitted in that state is in flight on the key, over all the
\* concurrent execute calls, until its outcome has been recorded.
C28_OneProbeAtATime ==
    \A pid \in DOMAIN km : \A i \in DOMAIN km[pid].keys :
        Cardinality(ProbesInFlight(pid, i)) <= 1

-----------------------------------------------------------------------------
(* Claims about the status of a tracker, checked under SpecStatus *)

\* the failures and the samples of the window at time t, as the tracker
\* holds them before the call
WindowFailures(h, t) ==
    Cardinality({i \in 1..Len(h.samples) :
                    /\ h.samples[i].timestamp >= t - HealthWindow
                    /\ ~h.samples[i].success})

WindowSamples(h, t) ==
    Cardinality({i \in 1..Len(h.samples) :
                    h.samples[i].timestamp >= t - HealthWindow})

\* C31: with f the share of failures among the samples of the window, 0 for
\* an empty window, status is unhealthy iff f >= 0.60, degraded iff
\* 0.60 > f >= 0.30 and healthy otherwise, whatever the cumulative counters
\* hold.
C31_StatusByWindowRate ==
    [][(obs'.op = "status") =>
          LET fails == WindowFailures(ht, now)
              n == WindowSamples(ht, now)
          IN  /\ (obs'.ret = "unhealthy")
                   <=> (n > 0 /\ 100 * fails >= UnhealthyThrPct * n)
              /\ (obs'.ret = "degraded")
                   <=> (/\ n > 0
                        /\ 100 * fails < UnhealthyThrPct * n
                        /\ 100 * fails >= DegradedThrPct * n)
              /\ obs'.ret \in {"unhealthy", "degraded", "healthy"}]_vars

\* unhealthy at a rate of exactly 0.60 in the window, three failures in
\* five samples, while the counters hold three failures in ten requests
C31_Witness ==
    /\ obs.op = "status" /\ obs.ret = "unhealthy"
    /\ Len(ht.samples) = 5
    /\ CountFailures(ht.samples) = 3
    /\ ht.total_requests = 10
    /\ ht.total_failures = 3

-----------------------------------------------------------------------------
(* Claims about a router with registered components, checked under         *)
(* SpecSupplied                                                            *)

\* provider i is kept out by the exclude set, by its lack of keys, or by a
\* component registered for it, asked at time t
Denied(i, exclude, est, t) ==
    LET pid == providers[i].provider_id
        d == obs.dicts
    IN  \/ pid \in exclude
        \/ ~HasKeys(providers[i])
        \/ d.circuits = pid /\ ~CB_can_execute(cb, d.cooldown, t).ret
        \/ d.health = pid /\ HT_status(ht, t).ret = "unhealthy"
        \/ d.quotas = pid
             /\ ~QM_can_accept(qm, d.rpm_limit, d.tpm_limit, est, t).ret

\* C32: select_provider and get_fallback_chain return no provider that is
\* excluded or that a registered breaker, tracker or quota manager denies;
\* select_provider returns None exactly when every provider is denied, and
\* under priority_failover the survivor of the least priority value.
C32_RouterFilters ==
    [][LET S == {i \in 1..Len(providers) :
                    ~Denied(i, obs'.exclude, obs'.est, now)}
       IN  /\ (obs'.n # obs.n /\ obs'.op = "select_provider") =>
                 /\ obs'.ret # 0 => obs'.ret \in S
                 /\ obs'.ret = 0 <=> S = {}
                 /\ (router.strategy = "priority_failover" /\ obs'.ret # 0) =>
                       \A j \in S : providers[obs'.ret].priority
                                      <= providers[j].priority
           /\ (obs'.n # obs.n /\ obs'.op = "get_fallback_chain") =>
                 {obs'.chain[k] : k \in 1..Len(obs'.chain)} \subseteq S]_vars

\* the router has dropped alpha for its unhealthy tracker and beta for its
\* open breaker, and returned gamma, whose priority value is the greatest
C32_Witness ==
    /\ obs.op = "select_provider"
    /\ obs.dicts.circuits = "beta" /\ obs.dicts.health = "alpha"
    /\ obs.exclude = {}
    /\ router.strategy = "priority_failover"
    /\ obs.ret # 0
    /\ providers[obs.ret].provider_id = "gamma"
    /\ cb.state = "open"
    /\ HT_status(ht, now).ret = "unhealthy"

-----------------------------------------------------------------------------
(* Claims about cancellation, checked under SpecCancel *)

\* C33: once the task running execute was cancelled while request_fn was in
\* flight, that request_fn call has ended cancelled and the call has
\* stopped: it made no request_fn call after it, on this provider or a
\* later one, entered no other provider and recorded nothing.
C33_CancelStops ==
    (obs.op = "cancel" /\ obs.pc = "inflight") =>
        /\ calls[1].pc = "cancelled"
        /\ Len(calls[1].log) = Len(obs.log) + 1
        /\ SubSeq(calls[1].log, 1, Len(obs.log)) = obs.log
        /\ calls[1].log[Len(calls[1].log)].outcome = "cancelled"
        /\ calls[1].attempted = obs.attempted
        /\ km = obs.km

\* the call was cancelled in its first attempt on a provider that had a
\* retry left and a provider after it in the chain, and time went on
C33_Witness ==
    /\ obs.op = "cancel" /\ obs.pc = "inflight"
    /\ calls[1].pc = "cancelled"
    /\ calls[1].attempt = 0
    /\ calls[1].max_attempts > 1
    /\ calls[1].pos < Len(calls[1].chain)
    /\ now > calls[1].start

-----------------------------------------------------------------------------
(* Claims about the LLM adapter, checked under SpecLLM *)

\* the provider_id of the configuration _call dispatches to for a member of
\* LLMProvider
DispatchedId(name) ==
    CASE name = "ANTHROPIC" -> "anthropic"
      [] name = "GOOGLE" -> "google"
      [] name = "OPENAI" -> "openai"
      [] OTHER -> "None"

\* C34: an invoke with a provider preference whose provider is in the
\* gateway's fallback chain tries that provider first, ahead of providers
\* of higher priority.
C34_PreferredFirst ==
    LET cl == calls[1]
        ids == {providers[cl.chain[i]].provider_id : i \in 1..Len(cl.chain)}
    IN  (obs.op = "invoke" /\ obs.provider # "None"
            /\ DispatchedId(obs.provider) \in ids) =>
           providers[cl.chain[1]].provider_id = DispatchedId(obs.provider)

-----------------------------------------------------------------------------
(* Claims about the Order entity, checked under SpecOrder *)

\* every status the last call assigned was reached along a listed pair
PathFollowsTable ==
    \A i \in 1..Len(obs.path) :
       obs.path[i] \in ORDER_TRANSITIONS(IF i = 1 THEN obs.prev.status
                                         ELSE obs.path[i - 1])

\* the last call asked for a transition the table does not list
RequestedUnlisted ==
    IF obs.op = "fill" /\ obs.prev.status = "SUBMITTED" THEN FALSE
    ELSE obs.target \notin ORDER_TRANSITIONS(obs.prev.status)

\* C35: the status of an order changes only along the pairs of the
\* transition table, and a call that asks for a transition not in the table
\* raises InvalidOrderTransitionError and leaves the order as it was,
\* status, broker_order_id and rejection_reason included.
C35_InvalidTransitionLeavesOrder ==
    obs.op # "init" =>
       /\ PathFollowsTable
       /\ obs.order.status # obs.prev.status => obs.path # <<>>
       /\ RequestedUnlisted => (obs.raised /\ obs.order = obs.prev)

\* the same with broker_order_id left out for a submit that raised
OrderStatusGuarded ==
    obs.op # "init" =>
       /\ PathFollowsTable
       /\ obs.order.status # obs.prev.status => obs.path # <<>>
       /\ RequestedUnlisted =>
             /\ obs.raised
             /\ obs.order.status = obs.prev.status
             /\ obs.order.rejection_reason = obs.prev.rejection_reason
             /\ obs.order.updated_at = obs.prev.updated_at
       /\ (obs.raised /\ obs.op # "submit") => obs.order = obs.prev

-----------------------------------------------------------------------------
(* Claims about the request quota under concurrent calls, checked under   *)
(* Spec                                                                    *)

\* the execute calls whose request_fn is in flight on key i of provider pid
\* and was started inside the quota window that ends now
StartedInWindow(pid, i) ==
    {c \in DOMAIN calls :
        /\ calls[c].pc = "inflight"
        /\ CurCfg(providers, calls[c]).provider_id = pid
        /\ calls[c].key = i
        /\ calls[c].start >= now - QuotaWindow}

\* C36: for a key with rpm_limit L > 0, under every interleaving of
\* concurrent execute calls, at most L requests are admitted to the key
\* with their start inside one window, and the key's quota window never
\* holds more than L usage records.
C36_RpmLimitKept ==
    \A pid \in DOMAIN km : \A i \in DOMAIN km[pid].keys :
        LET L == ConfigOf(providers, pid).rpm_limit
            q == km[pid].keys[i].quota_manager
        IN  L > 0 =>
               /\ Cardinality(StartedInWindow(pid, i))
                     + QM_requests_in_window(q, L, now).ret <= L
               /\ QM_requests_in_window(q, L, now).ret <= L

-----------------------------------------------------------------------------
(* Claims about blank keys, checked under Spec *)

\* C39: execute never calls request_fn with a blank API key; of a provider
\* whose api_keys mix blank and non-blank strings only the non-blank keys
\* are selected and passed on.
C39_NoBlankKeyUsed ==
    \A c \in DOMAIN calls :
        calls[c].pc = "inflight" =>
           Strip(km[CurCfg(providers, calls[c]).provider_id]
                    .keys[calls[c].key].api_key) # ""

-----------------------------------------------------------------------------
(* Claims about failures recorded on an open circuit, checked under SpecCB *)

\* C40 as stated: a breaker that went to OPEN at time t is found HALF_OPEN
\* by every query made at t + cooldown or later, and a record_failure on
\* an OPEN breaker leaves it OPEN without putting that moment off.
C40_AsStated ==
    [][/\ (cbObs'.op \in {"state", "can_execute"} /\ cb.state = "open"
             /\ now >= cbObs.opened + cbCfg.cooldown_seconds) =>
              cb'.state = "half_open"
       /\ (cbObs'.op = "record_failure" /\ cb.state = "open") =>
              cb'.state = "open"]_vars

\* C40, amended: a record_failure on an OPEN breaker leaves it OPEN and
\* starts the cooldown again; an OPEN breaker is found HALF_OPEN by a query
\* exactly when cooldown has passed since the last record_failure.
C40_CooldownFromLastFailure ==
    [][/\ (cbObs'.op \in {"state", "can_execute"} /\ cb.state = "open") =>
              (cb'.state = "half_open" <=>
                  now >= cbObs.lastFail + cbCfg.cooldown_seconds)
       /\ (cbObs'.op = "record_failure" /\ cb.state = "open") =>
              cb'.state = "open"]_vars

\* a failure was recorded on the breaker after it had opened and before it
\* was seen half-open, and a later query has found it HALF_OPEN
C40_Witness ==
    /\ cbObs.op \in {"state", "can_execute"}
    /\ cb.state = "half_open"
    /\ cbObs.prev = "open"
    /\ cbObs.opened >= 0
    /\ cbObs.lastFail > cbObs.opened

-----------------------------------------------------------------------------
(* Claims about termination, checked under SpecLive *)

\* the sum over the providers of a chain, from position i, of
\* min(max_retries + 1, max(len(api_keys), 1))
RECURSIVE ChainBudget(_, _)
ChainBudget(chain, i) ==
    IF i > Len(chain) THEN 0
    ELSE Min2(providers[chain[i]].max_retries + 1,
              Max2(Len(providers[chain[i]].api_keys), 1))
           + ChainBudget(chain, i + 1)

\* the request_fn invocations of a call: those that ended and the one in
\* flight
Invocations(cl) == Len(cl.log) + (IF cl.pc = "inflight" THEN 1 ELSE 0)

\* C37: every execute call ends: if each request_fn call eventually returns,
\* raises or is cut off by its timeout, the call eventually returns a result
\* or raises AllProvidersExhaustedError, and it invokes request_fn at most
\* as often as the max_attempts of the providers of its chain add up to.
C37_ExecuteTerminates ==
    /\ [](Invocations(calls[1]) <= ChainBudget(calls[1].chain, 1))
    /\ (calls[1].pc # "idle") ~> (calls[1].pc \in {"returned", "raised"})

\* a call has used every attempt its chain allows, three in all, and ended
\* in AllProvidersExhaustedError
C37_Witness ==
    /\ calls[1].pc = "raised"
    /\ Len(calls[1].log) = ChainBudget(calls[1].chain, 1)
    /\ Len(calls[1].log) >= 3

=============================================================================
